---- MODULE Spec2Model ----
(***************************************************************************)
(* Model of the scan / narrow engine of scnm: the chunked match list       *)
(* (match.h, match_internal.h), the scan driver (match_search.c:           *)
(* __search, process_region, __search_eq), the two scan readers            *)
(* (match_ptrace.c, match_search_pid_mem.c) and the narrow driver          *)
(* (match_match.c: __match and its predicates).                            *)
(*                                                                         *)
(* A value is the 8-byte payload of union match_object.v, kept as a tuple  *)
(* of bytes, least significant first (the host is little-endian LP64):     *)
(* the narrower views u8/u16/u32 are the leading bytes.  Comparisons are   *)
(* computed byte-wise so that the full 64-bit width is kept.               *)
(***************************************************************************)
EXTENDS Integers, Naturals, Sequences, FiniteSets, TLC

\* ------------------------------------------------------------------ values

\* sizeof(unsigned long) on the LP64 host
WORD == 8

AllFlags == {"i8", "i16", "i32", "i64", "f32", "f64"}

\* The payload holding the small non-negative integer n (n < 65536).
Bytes8(n) == <<n % 256, (n \div 256) % 256, 0, 0, 0, 0, 0, 0>>

ZeroBytes == Bytes8(0)

\* int8_t reading of a byte
Sgn(b) == IF b >= 128 THEN b - 256 ELSE b

RECURSIVE LtU(_, _, _)
\* a < b, both read as unsigned integers of n bytes
LtU(a, b, n) ==
    IF n = 0 THEN FALSE
    ELSE IF a[n] # b[n] THEN a[n] < b[n]
    ELSE LtU(a, b, n - 1)

\* a < b, both read as signed (two's complement) integers of n bytes
LtS(a, b, n) ==
    IF a[n] # b[n] THEN Sgn(a[n]) < Sgn(b[n]) ELSE LtU(a, b, n - 1)

\* a == b on the low n bytes
EqN(a, b, n) == \A i \in 1..n : a[i] = b[i]

\* C's integer comparisons at a width, as the predicates write them:
\* the unsigned reading or the signed reading.
IntLt(a, b, n) == LtU(a, b, n) \/ LtS(a, b, n)
IntLe(a, b, n) == ~LtU(b, a, n) \/ ~LtS(b, a, n)

\* IEEE 754 binary32 (n = 4) / binary64 (n = 8) readings of the low n bytes
FSign(a, n) == a[n] >= 128
FMag(a, n)  == [a EXCEPT ![n] = a[n] % 128]
FZero(a, n) == \A i \in 1..n : FMag(a, n)[i] = 0
FNaN(a, n)  ==
    IF n = 4
    THEN /\ a[4] % 128 = 127 /\ a[3] >= 128
         /\ (a[3] % 128 # 0 \/ a[2] # 0 \/ a[1] # 0)
    ELSE /\ a[8] % 128 = 127 /\ a[7] \div 16 = 15
         /\ (a[7] % 16 # 0 \/ \E i \in 1..6 : a[i] # 0)

FEq(a, b, n) ==
    /\ ~FNaN(a, n) /\ ~FNaN(b, n)
    /\ (EqN(a, b, n) \/ (FZero(a, n) /\ FZero(b, n)))

FLt(a, b, n) ==
    /\ ~FNaN(a, n) /\ ~FNaN(b, n)
    /\ ~(FZero(a, n) /\ FZero(b, n))
    /\ IF FSign(a, n) # FSign(b, n) THEN FSign(a, n)
       ELSE IF ~FSign(a, n) THEN LtU(FMag(a, n), FMag(b, n), n)
       ELSE LtU(FMag(b, n), FMag(a, n), n)

FLe(a, b, n) == FLt(a, b, n) \/ FEq(a, b, n)

\* u64 <= UINT8_MAX / UINT16_MAX / UINT32_MAX
FitsU(v, n) == \A i \in (n + 1)..8 : v[i] = 0


\* -------------------------------------------------- scan predicate

\* Faulty variant of search_eq: compares at the widest advertised width only,
\* like __match_eq.
SearchEqBug(value, needle) ==
    IF needle.flags \cap {"i64", "f64"} # {} THEN EqN(needle.v, value.v, 8)
    ELSE IF needle.flags \cap {"i32", "f32"} # {} THEN EqN(needle.v, value.v, 4)
    ELSE IF "i16" \in needle.flags THEN EqN(needle.v, value.v, 2)
    ELSE "i8" \in needle.flags /\ EqN(needle.v, value.v, 1)

\* __search_eq: a window matches when it equals the needle at ANY width the
\* needle advertises, tried from the narrowest upwards.
search_eq(value, needle) ==
    \/ "i8" \in needle.flags /\ EqN(needle.v, value.v, 1)
    \/ "i16" \in needle.flags /\ EqN(needle.v, value.v, 2)
    \/ needle.flags \cap {"i32", "f32"} # {} /\ EqN(needle.v, value.v, 4)
    \/ needle.flags \cap {"i64", "f64"} # {} /\ EqN(needle.v, value.v, 8)

\* -------------------------------------------------- narrow predicates
\* Each takes (orig, new, needle_1, needle_2) like match_fn.

match_eq(orig, new, needle, unused) ==
    IF needle.flags \cap {"i64", "f64"} # {} THEN EqN(needle.v, new.v, 8)
    ELSE IF needle.flags \cap {"i32", "f32"} # {} THEN EqN(needle.v, new.v, 4)
    ELSE IF "i16" \in needle.flags THEN EqN(needle.v, new.v, 2)
    ELSE IF "i8" \in needle.flags THEN EqN(needle.v, new.v, 1)
    ELSE FALSE

match_ne(orig, new, needle, unused) ==
    IF needle.flags \cap {"i64", "f64"} # {} THEN ~EqN(needle.v, new.v, 8)
    ELSE IF needle.flags \cap {"i32", "f32"} # {} THEN ~EqN(needle.v, new.v, 4)
    ELSE IF "i16" \in needle.flags THEN ~EqN(needle.v, new.v, 2)
    ELSE IF "i8" \in needle.flags THEN ~EqN(needle.v, new.v, 1)
    ELSE FALSE

\* needle < new
match_lt(orig, new, needle, unused) ==
    IF "i64" \in needle.flags THEN IntLt(needle.v, new.v, 8)
    ELSE IF "f64" \in needle.flags THEN FLt(needle.v, new.v, 8)
    ELSE IF "i32" \in needle.flags THEN IntLt(needle.v, new.v, 4)
    ELSE IF "f32" \in needle.flags THEN FLt(needle.v, new.v, 4)
    ELSE IF "i16" \in needle.flags THEN IntLt(needle.v, new.v, 2)
    ELSE IF "i8" \in needle.flags THEN IntLt(needle.v, new.v, 1)
    ELSE FALSE

\* needle <= new
match_le(orig, new, needle, unused) ==
    IF "i64" \in needle.flags THEN IntLe(needle.v, new.v, 8)
    ELSE IF "f64" \in needle.flags THEN FLe(needle.v, new.v, 8)
    ELSE IF "i32" \in needle.flags THEN IntLe(needle.v, new.v, 4)
    ELSE IF "f32" \in needle.flags THEN FLe(needle.v, new.v, 4)
    ELSE IF "i16" \in needle.flags THEN IntLe(needle.v, new.v, 2)
    ELSE IF "i8" \in needle.flags THEN IntLe(needle.v, new.v, 1)
    ELSE FALSE

\* needle > new
match_gt(orig, new, needle, unused) ==
    IF "i64" \in needle.flags THEN IntLt(new.v, needle.v, 8)
    ELSE IF "f64" \in needle.flags THEN FLt(new.v, needle.v, 8)
    ELSE IF "i32" \in needle.flags THEN IntLt(new.v, needle.v, 4)
    ELSE IF "f32" \in needle.flags THEN FLt(new.v, needle.v, 4)
    ELSE IF "i16" \in needle.flags THEN IntLt(new.v, needle.v, 2)
    ELSE IF "i8" \in needle.flags THEN IntLt(new.v, needle.v, 1)
    ELSE FALSE

\* needle >= new
match_ge(orig, new, needle, unused) ==
    IF "i64" \in needle.flags THEN IntLe(new.v, needle.v, 8)
    ELSE IF "f64" \in needle.flags THEN FLe(new.v, needle.v, 8)
    ELSE IF "i32" \in needle.flags THEN IntLe(new.v, needle.v, 4)
    ELSE IF "f32" \in needle.flags THEN FLe(new.v, needle.v, 4)
    ELSE IF "i16" \in needle.flags THEN IntLe(new.v, needle.v, 2)
    ELSE IF "i8" \in needle.flags THEN IntLe(new.v, needle.v, 1)
    ELSE FALSE

match_gt_lt(orig, new, lower, upper) ==
    match_gt(orig, new, lower, lower) /\ match_lt(orig, new, upper, upper)

match_ge_lt(orig, new, lower, upper) ==
    match_ge(orig, new, lower, lower) /\ match_lt(orig, new, upper, upper)

match_gt_le(orig, new, lower, upper) ==
    match_gt(orig, new, lower, lower) /\ match_le(orig, new, upper, upper)

match_ge_le(orig, new, lower, upper) ==
    match_ge(orig, new, lower, lower) /\ match_le(orig, new, upper, upper)

\* Faulty variant of match_changed: every flagged entry counts as changed.
ChangedWhenFlagged(orig, new, unused1, unused2) == orig.flags # {}

\* __match_changed: compares at the widest width flagged on the stored entry
match_changed(orig, new, unused1, unused2) ==
    IF orig.flags \cap {"i64", "f64"} # {} THEN ~EqN(orig.v, new.v, 8)
    ELSE IF orig.flags \cap {"i32", "f32"} # {} THEN ~EqN(orig.v, new.v, 4)
    ELSE IF "i16" \in orig.flags THEN ~EqN(orig.v, new.v, 2)
    ELSE IF "i8" \in orig.flags THEN ~EqN(orig.v, new.v, 1)
    ELSE FALSE

\* Faulty variant of match_unchanged: compares at the narrowest flagged width.
UnchangedNarrowestWidth(orig, new, unused1, unused2) ==
    IF "i8" \in orig.flags THEN EqN(orig.v, new.v, 1)
    ELSE IF "i16" \in orig.flags THEN EqN(orig.v, new.v, 2)
    ELSE IF orig.flags \cap {"i32", "f32"} # {} THEN EqN(orig.v, new.v, 4)
    ELSE IF orig.flags \cap {"i64", "f64"} # {} THEN EqN(orig.v, new.v, 8)
    ELSE FALSE

\* __match_unchanged: compares at the widest width flagged on the stored entry
match_unchanged(orig, new, unused1, unused2) ==
    IF orig.flags \cap {"i64", "f64"} # {} THEN EqN(orig.v, new.v, 8)
    ELSE IF orig.flags \cap {"i32", "f32"} # {} THEN EqN(orig.v, new.v, 4)
    ELSE IF "i16" \in orig.flags THEN EqN(orig.v, new.v, 2)
    ELSE IF "i8" \in orig.flags THEN EqN(orig.v, new.v, 1)
    ELSE FALSE

\* Faulty variant of match_decreased: every width is consulted, whatever
\* flags the stored entry carries.
DecreasedAtAnyWidth(orig, new, unused1, unused2) ==
    \E n \in {1, 2, 4, 8} : IntLt(new.v, orig.v, n)

\* new < orig at some width flagged on the stored entry
match_decreased(orig, new, unused1, unused2) ==
    \/ "i8" \in orig.flags /\ IntLt(new.v, orig.v, 1)
    \/ "i16" \in orig.flags /\ IntLt(new.v, orig.v, 2)
    \/ "i32" \in orig.flags /\ IntLt(new.v, orig.v, 4)
    \/ "f32" \in orig.flags /\ FLt(new.v, orig.v, 4)
    \/ "i64" \in orig.flags /\ IntLt(new.v, orig.v, 8)
    \/ "f64" \in orig.flags /\ FLt(new.v, orig.v, 8)

\* new > orig at some width flagged on the stored entry
match_increased(orig, new, unused1, unused2) ==
    \/ "i8" \in orig.flags /\ IntLt(orig.v, new.v, 1)
    \/ "i16" \in orig.flags /\ IntLt(orig.v, new.v, 2)
    \/ "i32" \in orig.flags /\ IntLt(orig.v, new.v, 4)
    \/ "f32" \in orig.flags /\ FLt(orig.v, new.v, 4)
    \/ "i64" \in orig.flags /\ IntLt(orig.v, new.v, 8)
    \/ "f64" \in orig.flags /\ FLt(orig.v, new.v, 8)

\* The match_fn a public narrow entry point hands to __match.
\* match_range picks among the four bound forms by its flags argument.
MatchFn(kind, orig, new, n1, n2) ==
    CASE kind = "eq"        -> match_eq(orig, new, n1, n2)
      [] kind = "ne"        -> match_ne(orig, new, n1, n2)
      [] kind = "lt"        -> match_lt(orig, new, n1, n2)
      [] kind = "le"        -> match_le(orig, new, n1, n2)
      [] kind = "gt"        -> match_gt(orig, new, n1, n2)
      [] kind = "ge"        -> match_ge(orig, new, n1, n2)
      [] kind = "gt_lt"     -> match_gt_lt(orig, new, n1, n2)
      [] kind = "ge_lt"     -> match_ge_lt(orig, new, n1, n2)
      [] kind = "gt_le"     -> match_gt_le(orig, new, n1, n2)
      [] kind = "ge_le"     -> match_ge_le(orig, new, n1, n2)
      [] kind = "changed"   -> match_changed(orig, new, n1, n2)
      [] kind = "unchanged" -> match_unchanged(orig, new, n1, n2)
      [] kind = "decreased" -> match_decreased(orig, new, n1, n2)
      [] kind = "increased" -> match_increased(orig, new, n1, n2)


\* ------------------------------------------------------------ bounds

\* Capacity of a chunk in the model.  The program allocates every chunk with
\* MATCH_CHUNK_SIZE_HUGE (800) slots; the model scales that capacity down.
ChunkCap == 3
\* Number of chunks the allocator can hand out; new_chunk fails beyond it.
MaxChunks == 4
\* Number of scan / narrow passes in one behaviour.
MaxPasses == 2
\* Number of passes in one behaviour of the aligned, fault-free sessions.
MaxSeqPasses == 3
\* Number of words the target changes between passes in one behaviour.
MaxMutations == 1
\* The latest turn of a region's window loop at which the target goes away.
MaxFailAt == 2
\* Lines of a maps file.
MaxLines == 3
\* The latest call of malloc in process_pid_maps that fails.
MaxFailAlloc == 2
\* Regions of a list that is filtered.
MaxRegions == 3
\* The latest call of malloc in a filter call that fails.
MaxFailFilter == 3

\* ------------------------------------------------------------ target

\* Two mapped, readable and writable regions of the target, in map order.
\* Region records carry start (inclusive) and end (exclusive).
R1 == [start |-> 4096, end |-> 4096 + 3 * WORD]
R2 == [start |-> 8192, end |-> 8192 + 4 * WORD]
\* A region of one native word, shorter than the reader's window.
R3 == [start |-> 12288, end |-> 12288 + WORD]
Mapped == {R1, R2, R3}

\* The region sets a scan is called with (struct region_list, in list order).
RegionSets == {<<>>, <<R1>>, <<R2>>, <<R1, R2>>}

WordAddrs == UNION {{r.start + WORD * k : k \in 0..((r.end - r.start) \div WORD - 1)} : r \in Mapped}

IsMapped(a) == \E r \in Mapped : r.start <= a /\ a < r.end

\* Payload values the target's words take.
V40  == Bytes8(40)
V41  == Bytes8(41)
V42  == Bytes8(42)
V43  == Bytes8(43)
V298 == Bytes8(298)
V554 == Bytes8(554)
\* The word the target rewrites between two passes of the tool (0x1008), and
\* the values it stores there.
MutAddrs == {4104}
MutValues == {V40, V43}

\* The target's memory when the tool attaches: 41, 42, 43 at 0x1000, 0x1008,
\* 0x1010 and a second region holding 298 (0x012A), 42, 554 (0x022A), 42.
InitMem ==
    (4096 :> V41) @@ (4104 :> V42) @@ (4112 :> V43) @@
    (8192 :> V298) @@ (8200 :> V42) @@ (8208 :> V554) @@ (8216 :> V42) @@
    (12288 :> V43)

\* Byte of the target at address a (a mapped).
MemByte(m, a) == m[a - (a % WORD)][(a % WORD) + 1]

\* Number of consecutive mapped bytes starting at a, at most 8.
RECURSIVE MappedRun(_, _)
MappedRun(a, k) ==
    IF k = 8 \/ ~IsMapped(a + k) THEN k ELSE MappedRun(a, k + 1)

\* The 8-byte buffer after reading n bytes of the target at a into zeroed storage.
MemBytes(m, a, n) == [i \in 1..8 |-> IF i <= n THEN MemByte(m, a + i - 1) ELSE 0]

\* Needles the caller searches with (struct match_needle: payload and flags).
Needle42 == [v |-> V42, flags |-> {"i8", "i16", "i32", "i64"}]
Needle40 == [v |-> V40, flags |-> {"i8", "i16", "i32", "i64"}]
Needle43 == [v |-> V43, flags |-> {"i8", "i16", "i32", "i64"}]
Needles == {Needle42, Needle43}

\* What lies in the heap in front of the reader's window buffer, which is
\* not the program's to read: whatever the allocator left there.  An image
\* is the set of byte offsets from window.data (below zero) that hold the
\* byte 42; the other bytes are zero.
HeapImages == {{}, {-8, -16}}

\* ------------------------------------------------------------ match objects

\* A calloc'ed struct match_object
ZeroObj == [addr |-> 0, v |-> ZeroBytes, flags |-> {}]

\* Faulty variant of set_match_flags: the byte count is rounded up to the
\* next width before the flags are derived.
SetFlagsRoundedUp(size) ==
    LET sz == IF size = 0 THEN 8 ELSE size
    IN  (IF sz > 4 THEN {"i64", "f64"} ELSE {})
        \cup (IF sz > 2 THEN {"i32", "f32"} ELSE {})
        \cup (IF sz > 1 THEN {"i16"} ELSE {})
        \cup {"i8"}

\* set_match_flags(obj, size): flags from the byte count alone
set_match_flags(size) ==
    LET sz == IF size = 0 THEN 8 ELSE size
    IN  (IF sz >= 8 THEN {"i64", "f64"} ELSE {})
        \cup (IF sz >= 4 THEN {"i32", "f32"} ELSE {})
        \cup (IF sz >= 2 THEN {"i16"} ELSE {})
        \cup {"i8"}

\* The flags get_match_object derives from the value read and the byte count.
\* neg is the sign of the full 64-bit reading; INT8_MIN etc. are negative, so
\* !(i64 < INTn_MIN) is decided by the bytes above the width being all ones.
GetObjFlags(v, n) ==
    LET neg == v[8] >= 128
        above(w) == \A i \in (w + 1)..8 : v[i] = 255
        fit(w) == FitsU(v, w) /\ (IF neg THEN above(w) /\ v[w] >= 128 ELSE TRUE)
    IN  (IF fit(1) THEN {"i8"} ELSE {})
        \cup (IF n >= 2 /\ fit(2) THEN {"i16"} ELSE {})
        \cup (IF n >= 4 /\ fit(4) THEN {"i32"} ELSE {})
        \cup (IF n >= 4 THEN {"f32"} ELSE {})
        \cup (IF n >= 8 THEN {"i64", "f64"} ELSE {})

\* get_match_object(&tmp, read_actor, fd, pid, addr): the return value and the
\* object read.  reader is "pid_mem" (__read_pid_mem, which returns a short
\* count at the end of a mapping) or "ptrace" (__ptrace_peektext, one word
\* peeked at addr).  ok is the outcome of the system call when the bytes are
\* there: any read fails once the target has gone away.
get_match_object(m, reader, addr, ok) ==
    LET k == MappedRun(addr, 0)
        n == IF k = 8 THEN 8 ELSE IF reader = "pid_mem" THEN k ELSE 0
    IN  IF ~ok \/ n = 0 THEN [ret |-> -1, obj |-> ZeroObj]
        ELSE [ret |-> 0,
              obj |-> [addr |-> addr, v |-> MemBytes(m, addr, n),
                       flags |-> GetObjFlags(MemBytes(m, addr, n), n)]]


\* ------------------------------------------------------------ scan readers
\* struct __process_ptrace_data: the window of native words (window.l, also
\* addressed by byte as window.data), window_pos, the number of words held
\* (the code's window_len, declared window_size), the next address to peek
\* and the bytes of the region not yet peeked.

\* ARRAY_SIZ(data->window.l) = NLONG_PER_U64 * 2
WINDOW_ENTRIES == 2
\* sizeof(data->window.data) = WINDOW_ENTRIES * sizeof(unsigned long)
WINDOW_SIZE == WINDOW_ENTRIES * WORD
\* sizeof(uint64_t) / sizeof(unsigned long)
NLONG_PER_U64 == 1

\* calloc(1, sizeof(*data))
ZeroData == [l |-> <<ZeroBytes, ZeroBytes>>, pos |-> 0, len |-> 0,
             addr |-> 0, remaining |-> 0]

\* get_next_segment: peek one more word of the region into the window,
\* sliding the window down when it is full.  ok is the outcome of
\* ptrace_peektext.  Result: the return value and the reader's data.
get_next_segment(d, m, ok) ==
    IF d.remaining < WORD THEN [ret |-> 1, d |-> d]
    ELSE
        LET slid == IF d.len >= WINDOW_ENTRIES
                    THEN [d EXCEPT !.l = <<d.l[2], d.l[2]>>,
                                   !.len = WINDOW_ENTRIES - 1]
                    ELSE d
        IN  IF ~ok \/ ~IsMapped(slid.addr) THEN [ret |-> -1, d |-> slid]
            ELSE [ret |-> 0,
                  d |-> [slid EXCEPT !.l[slid.len + 1] = m[slid.addr],
                                     !.addr = slid.addr + WORD,
                                     !.remaining = slid.remaining - WORD,
                                     !.len = slid.len + 1]]

\* get_next_u64: NLONG_PER_U64 segments; the number of words read, or < 0.
\* r is what get_next_segment returned.
u64_from_segment(r) ==
    IF r.ret < 0 THEN r
    ELSE IF r.ret > 0 THEN [ret |-> 0, d |-> r.d]
    ELSE [ret |-> NLONG_PER_U64, d |-> r.d]

get_next_u64(d, m, ok) == u64_from_segment(get_next_segment(d, m, ok))

\* __process_ptrace_set: position the reader at the start of a region and
\* load the window.  failAt is the peek that fails (0: none).
RECURSIVE SetLoad(_, _, _, _)
SetLoadStep(r, m, i, failAt) ==
    IF r.ret < 0 THEN [ret |-> -1, d |-> r.d]
    ELSE IF r.ret > 0 THEN [ret |-> IF i = 0 THEN -1 ELSE 0, d |-> r.d]
    ELSE SetLoad(r.d, m, i + 1, failAt)

SetLoad(d, m, i, failAt) ==
    IF i >= WINDOW_ENTRIES THEN [ret |-> 0, d |-> d]
    ELSE SetLoadStep(get_next_segment(d, m, failAt # i + 1), m, i, failAt)

process_ptrace_set(d, m, region, failAt) ==
    IF region.end - region.start < WINDOW_SIZE
    THEN [ret |-> 1,
          d |-> [d EXCEPT !.addr = region.start,
                          !.remaining = region.end - region.start,
                          !.pos = 0, !.len = 0]]
    ELSE SetLoad([d EXCEPT !.addr = region.start,
                           !.remaining = region.end - region.start,
                           !.pos = 0, !.len = 0],
                 m, 0, failAt)

\* __process_ptrace_next_aligned.  Result: return value, data, and the
\* object written through obj (when 0 is returned).  r is what the refill of
\* an exhausted window returned (NLONG_PER_U64 when none was needed).
aligned_emit(d, r) ==
    LET d1 == IF d.pos >= WINDOW_ENTRIES /\ r.ret > 0
              THEN [r.d EXCEPT !.pos = WINDOW_ENTRIES - r.ret - (NLONG_PER_U64 - 1)]
              ELSE r.d
    IN  IF r.ret < 0 THEN [ret |-> -1, d |-> r.d, obj |-> ZeroObj]
        ELSE IF r.ret = 0 THEN [ret |-> 1, d |-> r.d, obj |-> ZeroObj]
        ELSE [ret |-> 0,
              d |-> [d1 EXCEPT !.pos = d1.pos + 1],
              obj |-> [addr |-> d1.addr - WORD * (d1.len - d1.pos),
                       v |-> d1.l[d1.pos + 1],
                       flags |-> set_match_flags(0)]]

process_ptrace_next_aligned(d, m, ok) ==
    aligned_emit(d, IF d.pos >= WINDOW_ENTRIES
                    THEN get_next_u64(d, m, ok)
                    ELSE [ret |-> NLONG_PER_U64, d |-> d])

\* Byte k of window.data; a byte outside the buffer is heap content.
WinByte(d, heap, k) ==
    IF 0 <= k /\ k < WINDOW_SIZE THEN d.l[(k \div WORD) + 1][(k % WORD) + 1]
    ELSE IF k \in heap THEN 42 ELSE 0

\* __process_ptrace_next_unaligned.  window_pos is a size_t: a value below
\* zero here is the wrapped value the subtraction leaves, and
\* window_len - window_pos is then the small positive difference.  refill
\* tells whether fewer than 8 were left and r what get_next_u64 returned.
unaligned_emit(d, heap, refill, r) ==
    LET rem0 == d.len - d.pos
        p1 == r.d.pos - WORD * r.ret
        rem1 == r.d.len - p1
        p2 == IF rem1 < 0 \/ rem1 >= 7 THEN p1 - 7
              ELSE IF rem1 > 0 THEN 0 ELSE p1
        d1 == IF refill /\ r.ret > 0 THEN [r.d EXCEPT !.pos = p2] ELSE r.d
        rem2 == d1.len - d1.pos
        n == IF rem2 < 0 \/ rem2 >= 8 THEN 8 ELSE rem2
    IN  IF refill /\ r.ret < 0 THEN [ret |-> -1, d |-> r.d, obj |-> ZeroObj]
        ELSE IF refill /\ r.ret = 0 /\ rem0 = 0
             THEN [ret |-> 1, d |-> r.d, obj |-> ZeroObj]
        ELSE [ret |-> 0,
              d |-> [d1 EXCEPT !.pos = d1.pos + 1],
              obj |-> [addr |-> d1.addr - (WORD * d1.len - d1.pos),
                       v |-> [i \in 1..8 |->
                                IF i <= n THEN WinByte(d1, heap, d1.pos + i - 1)
                                ELSE 0],
                       flags |-> set_match_flags(n)]]

process_ptrace_next_unaligned(d, m, ok, heap) ==
    IF d.len - d.pos >= 0 /\ d.len - d.pos < 8
    THEN unaligned_emit(d, heap, TRUE, get_next_u64(d, m, ok))
    ELSE unaligned_emit(d, heap, FALSE, [ret |-> 1, d |-> d])

\* ops->next of the ptrace reader
process_ptrace_next(d, m, aligned, ok, heap) ==
    IF aligned THEN process_ptrace_next_aligned(d, m, ok)
    ELSE process_ptrace_next_unaligned(d, m, ok, heap)

\* ops->next of the /proc/<pid>/mem reader: returns 0 and gathers nothing,
\* so the slot handed to it keeps what it held.
process_pid_mem_next(slot) == [ret |-> 0, obj |-> slot]




\* ------------------------------------------------------------ needle parsing
\* match_init.c.  A C string is a tuple of characters; a char * into it is
\* the index of the character it points at, Len + 1 for the terminator.

\* The null pointer: no index into a string
NullPtr == 0
\* The terminating '\0'
Nul == "NUL"

CharAt(s, i) == IF i >= 1 /\ i <= Len(s) THEN s[i] ELSE Nul

LowerDigits == <<"0", "1", "2", "3", "4", "5", "6", "7", "8", "9",
                 "a", "b", "c", "d", "e", "f">>
UpperDigits == <<"0", "1", "2", "3", "4", "5", "6", "7", "8", "9",
                 "A", "B", "C", "D", "E", "F">>

\* The value of c as a digit, 99 when it is none
DigitVal(c) ==
    IF \E i \in 1..16 : LowerDigits[i] = c
    THEN (CHOOSE i \in 1..16 : LowerDigits[i] = c) - 1
    ELSE IF \E i \in 1..16 : UpperDigits[i] = c
    THEN (CHOOSE i \in 1..16 : UpperDigits[i] = c) - 1
    ELSE 99

IsDigit(c, base) == DigitVal(c) < base

RECURSIVE SkipSpace(_, _)
SkipSpace(s, i) == IF CharAt(s, i) \in {" ", "\t", "\n"} THEN SkipSpace(s, i + 1) ELSE i

\* v * base + carry on eight bytes: the eight bytes followed by the carry
\* out of the top byte
RECURSIVE MulAdd(_, _, _, _)
MulAdd(v, base, carry, i) ==
    IF i > 8 THEN <<carry>>
    ELSE CHOOSE r \in {<<t % 256>> \o MulAdd(v, base, t \div 256, i + 1) :
                          t \in {v[i] * base + carry}} : TRUE

\* -v modulo 2^64
Negate(v) == SubSeq(MulAdd([i \in 1..8 |-> 255 - v[i]], 1, 1, 1), 1, 8)

\* The digits of the base from s[i] on, accumulated into val; ovf: the
\* value left the 64 bits
RECURSIVE Accumulate(_, _, _, _, _)
Accumulate(s, i, base, val, ovf) ==
    IF ~IsDigit(CharAt(s, i), base) THEN [val |-> val, end |-> i, ovf |-> ovf]
    ELSE CHOOSE r \in {Accumulate(s, i + 1, base, SubSeq(m, 1, 8), ovf \/ m[9] # 0) :
                          m \in {MulAdd(val, base, DigitVal(CharAt(s, i)), 1)}} : TRUE

\* The prefix of a number at s[i2], behind the sign: hex when 0x and a
\* hexadecimal digit follow, and where the digits begin
HasHexPrefix(s, i2) ==
    /\ CharAt(s, i2) = "0" /\ CharAt(s, i2 + 1) \in {"x", "X"}
    /\ IsDigit(CharAt(s, i2 + 2), 16)

AfterSign(s, i1) == IF CharAt(s, i1) \in {"-", "+"} THEN i1 + 1 ELSE i1

\* strtoull(value, &endptr, 0): white space, a sign, 0x / 0 for base 16 / 8,
\* the digits.  Without a digit endptr is value itself; beyond 64 bits the
\* result is ULLONG_MAX with ERANGE; a minus sign negates modulo 2^64.
strtoull(s) ==
    LET Result(neg, i3, a) ==
            IF a.end = i3
            THEN [val |-> ZeroBytes, endptr |-> 1, erange |-> FALSE]
            ELSE IF a.ovf
            THEN [val |-> [i \in 1..8 |-> 255], endptr |-> a.end, erange |-> TRUE]
            ELSE [val |-> IF neg THEN Negate(a.val) ELSE a.val,
                  endptr |-> a.end, erange |-> FALSE]
        Digits(neg, i3, base) ==
            Result(neg, i3, Accumulate(s, i3, base, ZeroBytes, FALSE))
        Prefix(neg, i2) ==
            IF HasHexPrefix(s, i2) THEN Digits(neg, i2 + 2, 16)
            ELSE IF CharAt(s, i2) = "0" THEN Digits(neg, i2, 8)
            ELSE Digits(neg, i2, 10)
        Sign(i1) == Prefix(CharAt(s, i1) = "-", AfterSign(s, i1))
    IN  Sign(SkipSpace(s, 1))

\* strtod(value, &endptr) on a literal without exponent: white space, a
\* sign, 0x for a hexadecimal literal, digits, a point and more digits.
\* trunc is the integer part, what (uint64_t) makes of the result; such a
\* literal of up to 21 digits is within the range of double (and of float),
\* so ERANGE is not raised.
strtod(s) ==
    LET Result(i3, a, f) ==
            IF a.end = i3 /\ (f = a.end \/ f = a.end + 1)
            THEN [trunc |-> ZeroBytes, endptr |-> 1, erange |-> FALSE]
            ELSE [trunc |-> a.val, endptr |-> f, erange |-> FALSE]
        Fraction(i3, base, a) ==
            IF CharAt(s, a.end) = "."
            THEN Result(i3, a, Accumulate(s, a.end + 1, base, ZeroBytes, FALSE).end)
            ELSE Result(i3, a, a.end)
        Digits(i3, base) ==
            Fraction(i3, base, Accumulate(s, i3, base, ZeroBytes, FALSE))
        Prefix(i2) ==
            IF HasHexPrefix(s, i2) THEN Digits(i2 + 2, 16) ELSE Digits(i2, 10)
    IN  Prefix(AfterSign(s, SkipSpace(s, 1)))

\* Bit k (0 the lowest) of a payload
BitOf(v, k) == (v[(k \div 8) + 1] \div (2 ^ (k % 8))) % 2

\* The binary64 encoding of the unsigned integer u (exact below 2^53, the
\* low bits cut off above)
F64OfU64(u) ==
    IF u = ZeroBytes THEN ZeroBytes
    ELSE LET e == CHOOSE k \in 0..63 :
                      BitOf(u, k) = 1 /\ \A j \in (k + 1)..63 : BitOf(u, j) = 0
             ex == 1023 + e
             bit(k) == IF k = 63 THEN 0
                       ELSE IF k >= 52 THEN (ex \div (2 ^ (k - 52))) % 2
                       ELSE IF e - 52 + k >= 0 THEN BitOf(u, e - 52 + k)
                       ELSE 0
         IN  [i \in 1..8 |->
                 bit(8 * i - 8) + 2 * bit(8 * i - 7) + 4 * bit(8 * i - 6)
                 + 8 * bit(8 * i - 5) + 16 * bit(8 * i - 4)
                 + 32 * bit(8 * i - 3) + 64 * bit(8 * i - 2)
                 + 128 * bit(8 * i - 1)]

\* One of the three tests of match_flags_set_integer: the flag is assigned
\* when val is at most the unsigned maximum of w bytes: 1 when sval is not
\* negative, !(sval < min) when it is.
AssignFlag(flags, flag, val, w, min) ==
    IF ~FitsU(val, w) THEN flags
    ELSE IF Sgn(val[1]) < 0 /\ Sgn(val[1]) < min THEN flags \ {flag}
    ELSE flags \cup {flag}

\* match_flags_set_integer: sval is the int8_t at the address of val, the
\* low byte of the parsed value; the tests against INT8_MIN, INT16_MIN and
\* INT32_MIN; i64 is always set.
match_flags_set_integer(value, flags) ==
    LET Flags(r) ==
            IF r.erange \/ CharAt(value, r.endptr) # Nul
            THEN [ok |-> FALSE, flags |-> flags]
            ELSE [ok |-> TRUE,
                  flags |->
                    AssignFlag(
                      AssignFlag(
                        AssignFlag(flags, "i8", r.val, 1, -128),
                        "i16", r.val, 2, -32768),
                      "i32", r.val, 4, -2147483647 - 1)
                    \cup {"i64"}]
    IN  Flags(strtoull(value))

\* match_flags_set_floating: endptr != '\0' compares the pointer strtof
\* stored with the null pointer
match_flags_set_floating(value, flags) ==
    LET Flags(f) ==
            IF f.endptr # NullPtr THEN [ok |-> FALSE, flags |-> flags]
            ELSE IF ~f.erange
            THEN [ok |-> TRUE, flags |-> flags \cup {"f32", "f64"}]
            ELSE IF f.erange /\ CharAt(value, f.endptr) # Nul
            THEN [ok |-> FALSE, flags |-> flags]
            ELSE [ok |-> TRUE, flags |-> flags \cup {"f64"}]
    IN  Flags(strtod(value))

\* What match_needle_init leaves when it fails: the zeroed needle
NeedleError(errno) ==
    [ret |-> -1, errno |-> errno, v |-> ZeroBytes, flags |-> {}]

\* match_needle_init: the needle is zeroed; ERANGE from strtoull or strtod
\* returns -1; the two returns of 0 are taken when endptr == '\0', which
\* compares the pointer itself with the null pointer; EINVAL otherwise.
match_needle_init(value) ==
    LET Floating(d) ==
            IF d.erange THEN NeedleError("ERANGE")
            ELSE IF d.endptr = NullPtr
            THEN [ret |-> 0, errno |-> "0", v |-> F64OfU64(d.trunc),
                  flags |-> match_flags_set_floating(value, {}).flags]
            ELSE NeedleError("EINVAL")
        Integer(r) ==
            IF r.erange THEN NeedleError("ERANGE")
            ELSE IF r.endptr = NullPtr
            THEN [ret |-> 0, errno |-> "0", v |-> r.val,
                  flags |-> match_flags_set_integer(value, {}).flags]
            ELSE Floating(strtod(value))
    IN  Integer(strtoull(value))

\* The texts handed to the parser: an optional minus sign, an optional 0x or
\* 0, a run of digits, and nothing, a letter or a fraction behind it.
Signs == {<<>>, <<"-">>}
Prefixes == {<<>>, <<"0", "x">>, <<"0">>}
DigitRuns ==
    { <<"1">>, <<"4", "2">>, <<"1", "2", "9">>, <<"2", "0", "0">>,
      <<"2", "5", "6">>,
      <<"1", "8", "4", "4", "6", "7", "4", "4", "0", "7", "3", "7", "0", "9",
        "5", "5", "1", "6", "1", "5">>,
      <<"1", "8", "4", "4", "6", "7", "4", "4", "0", "7", "3", "7", "0", "9",
        "5", "5", "1", "6", "1", "6">> }
Tails == {<<>>, <<"z">>, <<".", "5">>}
Literals ==
    {s \o p \o d \o t : s \in Signs, p \in Prefixes, d \in DigitRuns, t \in Tails}

\* ------------------------------------------------------------ pid maps
\* pid_maps.c and region.h.  A line of /proc/<pid>/maps is a tuple of
\* characters as getline returns it, the newline included; struct region_list
\* is the sequence of its regions with next_id and size.

\* struct mapping, as malloc returns it: the permission bytes hold whatever
\* the allocator left (junk), the rest is kept at zero
FreshMapping(junk) ==
    [start |-> 0, end |-> 0, read |-> junk[1], write |-> junk[2],
     exec |-> junk[3], cow |-> junk[4], offset |-> 0, major |-> 0,
     minor |-> 0, inode |-> 0, pathname |-> <<>>]

\* The digits of the base from s[i] on, as a number
RECURSIVE ReadDigits(_, _, _, _)
ReadDigits(s, i, base, acc) ==
    IF ~IsDigit(CharAt(s, i), base) THEN [val |-> acc, end |-> i]
    ELSE ReadDigits(s, i + 1, base, acc * base + DigitVal(CharAt(s, i)))

\* The characters up to the next white space or the end, from s[i] on
RECURSIVE WordEnd(_, _)
WordEnd(s, i) ==
    IF CharAt(s, i) \in {" ", "\t", "\n", Nul} THEN i ELSE WordEnd(s, i + 1)

\* The directives of "%lx-%lx %c%c%c%c %lx %x:%x %lu %s" and the members of
\* struct mapping the conversions store into
MapsFormat ==
    << [d |-> "num", base |-> 16, to |-> "start"], [d |-> "lit", c |-> "-"],
       [d |-> "num", base |-> 16, to |-> "end"], [d |-> "ws"],
       [d |-> "chr", to |-> "read"], [d |-> "chr", to |-> "write"],
       [d |-> "chr", to |-> "exec"], [d |-> "chr", to |-> "cow"], [d |-> "ws"],
       [d |-> "num", base |-> 16, to |-> "offset"], [d |-> "ws"],
       [d |-> "num", base |-> 16, to |-> "major"], [d |-> "lit", c |-> ":"],
       [d |-> "num", base |-> 16, to |-> "minor"], [d |-> "ws"],
       [d |-> "num", base |-> 10, to |-> "inode"], [d |-> "ws"],
       [d |-> "str", to |-> "pathname"] >>

\* sscanf stops: EOF when the input ended before the first conversion, the
\* number of conversions stored otherwise
ScanStop(count, m, atEnd) ==
    [ret |-> IF atEnd /\ count = 0 THEN -1 ELSE count, m |-> m]

\* sscanf(line, fmt, ...) from directive k and position pos on, count
\* conversions stored so far into m
RECURSIVE sscanf(_, _, _, _, _, _)
sscanf(s, fmt, k, pos, count, m) ==
    IF k > Len(fmt) THEN [ret |-> count, m |-> m]
    ELSE IF fmt[k].d = "ws"
    THEN sscanf(s, fmt, k + 1, SkipSpace(s, pos), count, m)
    ELSE IF fmt[k].d = "lit"
    THEN IF CharAt(s, pos) = fmt[k].c
         THEN sscanf(s, fmt, k + 1, pos + 1, count, m)
         ELSE ScanStop(count, m, CharAt(s, pos) = Nul)
    ELSE IF fmt[k].d = "chr"
    THEN IF CharAt(s, pos) = Nul THEN ScanStop(count, m, TRUE)
         ELSE sscanf(s, fmt, k + 1, pos + 1, count + 1,
                     [m EXCEPT ![fmt[k].to] = CharAt(s, pos)])
    ELSE IF fmt[k].d = "str"
    THEN CHOOSE r \in
           { IF CharAt(s, p) = Nul THEN ScanStop(count, m, TRUE)
             ELSE sscanf(s, fmt, k + 1, WordEnd(s, p), count + 1,
                         [m EXCEPT ![fmt[k].to] = SubSeq(s, p, WordEnd(s, p) - 1)]) :
             p \in {SkipSpace(s, pos)} } : TRUE
    ELSE CHOOSE r \in
           { IF CharAt(s, p) = Nul THEN ScanStop(count, m, TRUE)
             ELSE IF n.end = p THEN ScanStop(count, m, FALSE)
             ELSE sscanf(s, fmt, k + 1, n.end, count + 1,
                         [m EXCEPT ![fmt[k].to] = n.val]) :
             p \in {SkipSpace(s, pos)},
             n \in {ReadDigits(s, SkipSpace(s, pos), fmt[k].base, 0)} } : TRUE

\* parse_line: 0 with ten or eleven fields, -1 and EPIPE with none, and what
\* sscanf returned otherwise
parse_line(line, mapping) ==
    CHOOSE r \in
      { IF p.ret >= 10 THEN [ret |-> 0, errno |-> "unchanged", m |-> p.m]
        ELSE IF p.ret = 0 THEN [ret |-> -1, errno |-> "EPIPE", m |-> p.m]
        ELSE [ret |-> p.ret, errno |-> "unchanged", m |-> p.m] :
        p \in {sscanf(line, MapsFormat, 1, 1, 0, mapping)} } : TRUE

\* new_region_from_mapping
new_region_from_mapping(mapping) ==
    [id |-> 0, start |-> mapping.start, end |-> mapping.end,
     perms |-> {b \in {"read"} : mapping.read = "r"}
               \cup {b \in {"write"} : mapping.write = "w"}
               \cup {b \in {"exec"} : mapping.exec = "x"}
               \cup {b \in {"private"} : mapping.cow = "p"}
               \cup {b \in {"shared"} : mapping.cow = "s"},
     pathname |-> mapping.pathname]

\* Faulty variant of region_list_init: the ids go on from where the list was.
RegionListKeepIds(list) ==
    [regions |-> <<>>, next_id |-> list.next_id, size |-> 0]

\* region_list_init
region_list_init(list) == [regions |-> <<>>, next_id |-> 1, size |-> 0]

\* The caller's region_list_init(&list)
NoRegions == [regions |-> <<>>, next_id |-> 1, size |-> 0]

\* region_list_add: entry->id = list->next_id++, list_add_tail, size++
region_list_add(list, entry) ==
    [regions |-> Append(list.regions, [entry EXCEPT !.id = list.next_id]),
     next_id |-> list.next_id + 1, size |-> list.size + 1]

\* region_list_clear: every region is freed, then region_list_init
region_list_clear(list) == region_list_init(list)

\* out: of process_pid_maps
maps_out(r, errno, list) ==
    [ret |-> r, errno |-> errno,
     list |-> IF r # 0 THEN region_list_clear(list) ELSE list]

\* The loop of process_pid_maps from line k of the file on.  mapping is
\* NULL (<<>>) before the first line; allocs counts the calls of malloc so
\* far and the failAt-th of them returns NULL; junk is what the first malloc
\* leaves in the mapping.  The lines of the model fit the first line
\* buffer, so the mapping is allocated once.
RECURSIVE maps_loop(_, _, _, _, _, _, _)
maps_loop(file, k, mapping, allocs, failAt, junk, list) ==
    IF k > Len(file) THEN maps_out(0, "unchanged", list)
    ELSE IF mapping = <<>>
    THEN IF allocs + 1 = failAt THEN maps_out(-1, "ENOMEM", list)
         ELSE maps_loop(file, k, FreshMapping(junk), allocs + 1, failAt, junk, list)
    ELSE CHOOSE r \in
           { IF p.ret < 0 THEN maps_out(-1, p.errno, list)
             ELSE IF p.m.write # "w" \/ p.m.read # "r"
             THEN maps_loop(file, k + 1, p.m, allocs, failAt, junk, list)
             ELSE IF allocs + 1 = failAt THEN maps_out(-1, "ENOMEM", list)
             ELSE maps_loop(file, k + 1, p.m, allocs + 1, failAt, junk,
                            region_list_add(list, new_region_from_mapping(p.m))) :
             p \in {parse_line(file[k], [mapping EXCEPT !.pathname = <<>>])} } : TRUE

\* process_pid_maps: -1 with the list untouched when the maps file cannot be
\* opened; otherwise region_list_init(list) and the loop over the lines
process_pid_maps(file, list, opened, failAt, junk) ==
    IF ~opened THEN [ret |-> -1, errno |-> "ENOENT", list |-> list]
    ELSE maps_loop(file, 1, <<>>, 0, failAt, junk, region_list_init(list))

\* Lines of a maps file
\* 10-20 rw-p 0 00:00 0 [heap]\n: a private read-write mapping with a pseudo-path
LineHeap ==
    <<"1", "0", "-", "2", "0", " ", "r", "w", "-", "p", " ", "0", " ", "0",
      "0", ":", "0", "0", " ", "0", " ", "[", "h", "e", "a", "p", "]",
      "\n">>
\* 30-40 r-xp 0 08:01 7 /a\n: a read-only mapping of a file
LineText ==
    <<"3", "0", "-", "4", "0", " ", "r", "-", "x", "p", " ", "0", " ", "0",
      "8", ":", "0", "1", " ", "7", " ", "/", "a", "\n">>
\* 50-60 rw-s 0 00:00 0\n: a shared read-write mapping without a pathname (ten fields)
LineShared ==
    <<"5", "0", "-", "6", "0", " ", "r", "w", "-", "s", " ", "0", " ", "0",
      "0", ":", "0", "0", " ", "0", "\n">>
\* 70-80\n: a line that ends behind the addresses (two fields)
LineNoPerms ==
    <<"7", "0", "-", "8", "0", "\n">>
\* 90-a0 rw-p\n: a line that ends behind the permissions (six fields)
LineNoOffset ==
    <<"9", "0", "-", "a", "0", " ", "r", "w", "-", "p", "\n">>
\* zz\n: a line without a field
LineJunk ==
    <<"z", "z", "\n">>
\* \n: an empty line
LineBlank ==
    <<"\n">>

MapLines ==
    {LineHeap, LineText, LineShared, LineNoPerms, LineNoOffset, LineJunk,
     LineBlank}

\* The maps files: up to MaxLines lines
MapsFiles == UNION {[1..n -> MapLines] : n \in 0..MaxLines}

\* What malloc leaves in the permission bytes of a fresh mapping
JunkPerms == {<<"r", "w", "-", "p">>, <<"-", "-", "-", "-">>}

\* ------------------------------------------------------------ region filters
\* region.c.  A struct region_filter points at a region of the list it was
\* made from: it is kept as the position of that region in the list.

\* The result of a filter call: NULL, or a struct region_filter_list; or no
\* result because the call did not return
NullView == [status |-> "returned", null |-> TRUE, filters |-> <<>>, size |-> 0]
Crashed == [status |-> "crashed", null |-> TRUE, filters |-> <<>>, size |-> 0]

\* region_filter_list_init
region_filter_list_init == [filters |-> <<>>, size |-> 0]

\* region_filter_list_add of region_filter_new(region), the region at
\* position i
region_filter_list_add(view, i) ==
    [filters |-> Append(view.filters, i), size |-> view.size + 1]

\* sub occurs in s
Contains(s, sub) ==
    \E i \in 0..(Len(s) - Len(sub)) : SubSeq(s, i + 1, i + Len(sub)) = sub

\* basename(3) of <libgen.h>: "." for the empty string, trailing slashes
\* are dropped, "/" when nothing else is left, else what follows the last
\* slash
RECURSIVE Basename(_)
Basename(p) ==
    IF p = <<>> THEN <<".">>
    ELSE IF p = <<"/">> THEN p
    ELSE IF p[Len(p)] = "/" THEN Basename(SubSeq(p, 1, Len(p) - 1))
    ELSE IF \E i \in 1..Len(p) : p[i] = "/"
    THEN SubSeq(p, (CHOOSE i \in 1..Len(p) :
                        p[i] = "/" /\ \A j \in (i + 1)..Len(p) : p[j] # "/") + 1,
                Len(p))
    ELSE p

\* struct basename_match_data at the start of a basename filter: path NULL
NoBuffer == [path |-> "NULL", path_len |-> 0]

\* The result of a match function: err, the work buffer, whether it called
\* malloc, and whether it ran into undefined behaviour
Matched3(err, bmd, alloc, ub) == [err |-> err, bmd |-> bmd, alloc |-> alloc, ub |-> ub]

\* regex_match: regexec gives 0 on a match and REG_NOMATCH otherwise; the
\* patterns of the model have no metacharacter and match where they occur
regex_match(region, regex, bmd) ==
    Matched3(IF Contains(region.pathname, regex) THEN 0 ELSE 1, bmd, FALSE, FALSE)

\* pathname_match: strcmp(region->pathname, pathname) != 0
pathname_match(region, pathname, bmd) ==
    Matched3(IF region.pathname # pathname THEN 1 ELSE 0, bmd, FALSE, FALSE)

\* basename_match: the buffer is replaced when the pathname is longer than
\* it (malloc may fail: -1), the pathname is copied into it and its
\* basename compared with find.  With path still NULL (no pathname longer
\* than 0 so far) memcpy writes through the null pointer.
basename_match(region, find, bmd, mallocFails) ==
    IF Len(region.pathname) > bmd.path_len
    THEN IF mallocFails THEN Matched3(-1, [bmd EXCEPT !.path = "NULL"], TRUE, FALSE)
         ELSE Matched3(IF Basename(region.pathname) # find THEN 1 ELSE 0,
                       [path |-> "buf", path_len |-> Len(region.pathname)],
                       TRUE, FALSE)
    ELSE IF bmd.path = "NULL"
    THEN Matched3(IF <<".">> # find THEN 1 ELSE 0, bmd, FALSE, TRUE)
    ELSE Matched3(IF Basename(region.pathname) # find THEN 1 ELSE 0,
                  bmd, FALSE, FALSE)

\* err = match_fn(region, data)
match_fn(kind, region, data, bmd, mallocFails) ==
    CASE kind = "regex" -> regex_match(region, data, bmd)
      [] kind = "pathname" -> pathname_match(region, data, bmd)
      [] kind = "basename" -> basename_match(region, data, bmd, mallocFails)

\* The two continue statements of the loop: with invert the regions that
\* match (err == 0) are skipped, without it those that do not (err > 0)
filter_skips(invert, err) == IF invert THEN err = 0 ELSE err > 0

\* The loop of __region_list_filter from region i on.  allocs counts the
\* calls of malloc so far and the failAt-th returns NULL; ub is what the
\* build makes of a write through the null pointer: the process is killed
\* or the write is lost.
RECURSIVE filter_loop(_, _, _, _, _, _, _, _, _, _)
filter_loop(list, i, kind, data, invert, view, bmd, allocs, failAt, ub) ==
    IF i > Len(list.regions)
    THEN IF view.size = 0 THEN NullView
         ELSE [status |-> "returned", null |-> FALSE,
               filters |-> view.filters, size |-> view.size]
    ELSE CHOOSE r \in
           { IF m.ub /\ ub = "killed" THEN Crashed
             ELSE IF m.err < 0 THEN NullView
             ELSE IF filter_skips(invert, m.err)
             THEN filter_loop(list, i + 1, kind, data, invert, view, m.bmd,
                              a, failAt, ub)
             ELSE IF a + 1 = failAt THEN NullView
             ELSE filter_loop(list, i + 1, kind, data, invert,
                              region_filter_list_add(view, i), m.bmd,
                              a + 1, failAt, ub) :
             m \in {match_fn(kind, list.regions[i], data, bmd, allocs + 1 = failAt)},
             a \in {IF match_fn(kind, list.regions[i], data, bmd,
                                allocs + 1 = failAt).alloc
                    THEN allocs + 1 ELSE allocs} } : TRUE

\* __region_list_filter: NULL for an empty list and when the list header
\* cannot be allocated, else the loop
region_list_filter(list, kind, data, invert, failAt, ub) ==
    IF list.regions = <<>> THEN NullView
    ELSE IF failAt = 1 THEN NullView
    ELSE filter_loop(list, 1, kind, data, invert, region_filter_list_init,
                     NoBuffer, 1, failAt, ub)

\* Pathnames of regions, a basename and a pattern
\* /usr/lib/libc.so.6
PathLibc ==
    <<"/", "u", "s", "r", "/", "l", "i", "b", "/", "l", "i", "b", "c", ".",
      "s", "o", ".", "6">>
\* /usr/local/lib/libfoo.so
PathLibfoo ==
    <<"/", "u", "s", "r", "/", "l", "o", "c", "a", "l", "/", "l", "i", "b",
      "/", "l", "i", "b", "f", "o", "o", ".", "s", "o">>
\* [heap]
PathHeap ==
    <<"[", "h", "e", "a", "p", "]">>
\* libc.so.6
BaseLibc ==
    <<"l", "i", "b", "c", ".", "s", "o", ".", "6">>
\* lib
PatternLib ==
    <<"l", "i", "b">>

\* The pathnames of the regions of a list: two libraries, the heap, and a
\* mapping without a pathname
Pathnames == {PathLibc, PathLibfoo, PathHeap, <<>>}

\* A read-write private region at the k-th page with the pathname p
RegionAt(k, p) ==
    [id |-> 0, start |-> 4096 * k, end |-> 4096 * (k + 1),
     perms |-> {"read", "write", "private"}, pathname |-> p]

\* The list holding regions with the pathnames ps, added in this order
RECURSIVE ListOf(_, _, _)
ListOf(ps, k, list) ==
    IF k > Len(ps) THEN list
    ELSE ListOf(ps, k + 1, region_list_add(list, RegionAt(k, ps[k])))

\* The region lists that are filtered: up to MaxRegions regions
FilterLists ==
    {ListOf(ps, 1, NoRegions) : ps \in UNION {[1..n -> Pathnames] : n \in 0..MaxRegions}}

\* The filters asked for: kind and argument
FilterCalls ==
    { [kind |-> "pathname", arg |-> PathLibc],
      [kind |-> "pathname", arg |-> PathHeap],
      [kind |-> "basename", arg |-> BaseLibc],
      [kind |-> "basename", arg |-> <<".">>],
      [kind |-> "regex", arg |-> PatternLib] }

\* What a write through the null pointer comes to
NullWrites == {"killed", "lost"}

\* ------------------------------------------------------------ state

VARIABLES
    mem,        \* the target's memory: word address -> payload
    chunk,      \* the heap of match chunks: id -> struct match_chunk_header
    order,      \* match_list.head: the ids of the linked chunks, in list order
    size,       \* match_list.size
    pc,         \* where the engine is
    op,         \* arguments and locals of the pass in progress
    ret,        \* what the pass that finished last returned
    passes,     \* passes started so far
    mutations,  \* words the target has changed so far
    dirty,      \* history: the target changed since the last pass began
    windows,    \* history: the objects ops->next gathered in this scan
    evals,      \* history: the stored objects this narrow pass evaluated
    last,       \* history: what the last finished pass was
    seen,       \* the snapshot a direct observation of the target produced
    verdict,    \* a predicate called on its own: its arguments and result
    parsed,     \* a text handed to the needle parser, and what came of it
    rlist,      \* the caller's struct region_list
    maps,       \* the last call of process_pid_maps: its file and result
    view,       \* the last filter call on the list: its arguments and result
    cut,        \* a chunk, the slot deleted from it last, and the chunk before
    tracer      \* a struct ptracer_ctx and the tracee it is attached to

\* The state outside of the scan / narrow engine
aux == <<verdict, parsed, rlist, maps, view, cut, tracer>>

vars == <<mem, chunk, order, size, pc, op, ret, passes, mutations, dirty,
          windows, evals, last, seen, aux>>

ChunkIds == 1..MaxChunks

\* A chunk id that is not allocated
NoChunk == [used |-> 0, count |-> 0, objects |-> <<>>]

\* new_chunk(size): calloc'ed, count set
new_chunk(n) == [used |-> 0, count |-> n, objects |-> [i \in 1..n |-> ZeroObj]]

FreeIds(ch) == {c \in ChunkIds : ch[c] = NoChunk}
FreshId(ch) == CHOOSE c \in FreeIds(ch) : \A x \in FreeIds(ch) : c <= x

\* The used objects of one chunk, in slot order
Used(c) == [i \in 1..c.used |-> c.objects[i]]

RECURSIVE Entries(_, _)
\* The candidates of the list: the used objects of its chunks, in list order
Entries(ch, ord) ==
    IF ord = <<>> THEN <<>> ELSE Used(ch[Head(ord)]) \o Entries(ch, Tail(ord))

\* list_for_each: the node after id, 0 for the list head
NextNode(ord, id) ==
    LET k == CHOOSE j \in 1..Len(ord) : ord[j] = id
    IN  IF k = Len(ord) THEN 0 ELSE ord[k + 1]

FirstNode(ord) == IF ord = <<>> THEN 0 ELSE ord[1]

\* list_del
ListDel(ord, id) == SelectSeq(ord, LAMBDA x : x # id)

\* History of the last finished pass: which pass, its predicate and first
\* needle, the scan mode, whether it took an error path, whether it
\* was a scan that started on an empty list, whether it opened
\* /proc/<pid>/mem, how often it called close_pid_mem and whether that
\* failed, and errno as the caller finds it.
NoPass == [pass |-> "none", pred |-> "eq", n1 |-> Needle42, aligned |-> TRUE,
           err |-> 0, fromEmpty |-> FALSE, opened |-> FALSE, closes |-> 0,
           closeFailed |-> FALSE, errno |-> "unset"]

\* errno: "unset" until a call of the pass fails, "ECALL" for what the
\* failed call left there, "EIO" for what a failed close leaves.  bad is the
\* address of the candidate whose read failed, turn the parity of the turns
\* of the window loop that left everything as it was.
IdleOp == [pass |-> "none", pred |-> "eq", n1 |-> Needle42, n2 |-> Needle42,
           regions |-> <<>>, aligned |-> TRUE, reader |-> "ptrace", fd |-> -1,
           d |-> ZeroData, heap |-> {}, ri |-> 0, cur |-> 0, entry |-> 0,
           next |-> 0, err |-> 0, retSet |-> FALSE, ret |-> 0,
           before |-> <<>>, mut |-> FALSE, bad |-> 0, errno |-> "unset",
           turn |-> 0]

\* No observation made
NoSnapshot == [path |-> "none", n |-> 0, obj |-> ZeroObj]

\* No predicate has been called on its own
NoNeedle == [v |-> ZeroBytes, flags |-> {}]
NoVerdict == [kind |-> "none", orig |-> ZeroObj, new |-> ZeroObj,
              n1 |-> NoNeedle, n2 |-> NoNeedle, keep |-> FALSE]

\* No text has been parsed
NoParse == [text |-> <<>>, call |-> "none", ret |-> 0, errno |-> "0",
            v |-> ZeroBytes, flags |-> {}]

\* process_pid_maps has not been called
NoMaps == [calls |-> 0, file |-> <<>>, opened |-> FALSE, junk |-> <<>>,
           failAt |-> 0, ret |-> 0, errno |-> "unchanged", before |-> NoRegions]

\* No filter has been called
NoView == [kind |-> "none", arg |-> <<>>, invert |-> FALSE, failAt |-> 0,
           ub |-> "lost", out |-> NullView]

\* No slot has been deleted on its own
MaxCuts == 2

NoCut == [before |-> NoChunk, slot |-> 0, calls |-> 0, c |-> NoChunk]

\* No tracer has been set up
NoTracer == [pc |-> "none"]

AuxInit ==
    /\ verdict = NoVerdict
    /\ parsed = NoParse
    /\ rlist = NoRegions
    /\ maps = NoMaps
    /\ view = NoView
    /\ cut = NoCut
    /\ tracer = NoTracer

Init ==
    /\ mem = InitMem
    /\ chunk = [c \in ChunkIds |-> NoChunk]
    /\ order = <<>>
    /\ size = 0
    /\ pc = "idle"
    /\ op = IdleOp
    /\ ret = 0
    /\ passes = 0
    /\ mutations = 0
    /\ dirty = FALSE
    /\ windows = <<>>
    /\ evals = <<>>
    /\ last = NoPass
    /\ seen = NoSnapshot
    /\ AuxInit

\* ------------------------------------------------------------ scan

\* Faulty variants of match_list_add: one that links without counting, one
\* that links at the head (list_add for list_add_tail).
MatchListAddUncounted(ord, sz, id) == [order |-> Append(ord, id), size |-> sz]

MatchListAddHead(ord, sz, id) == [order |-> <<id>> \o ord, size |-> sz + 1]

\* match_list_add: link at the tail, count it
match_list_add(ord, sz, id) == [order |-> Append(ord, id), size |-> sz + 1]

\* if (fd != -1) (void)close_pid_mem(fd)
SearchCloses(fd) == fd # -1

\* out: of __search: errno is saved when ret (r) is not 0, ops->fini, the
\* handle is closed if one was opened, errno is put back when ret is not 0.
\* closeOk is the outcome of close.  Result: the calls of close and errno at
\* the return.
search_out(fd, r, errno, closeOk) ==
    [closes |-> IF SearchCloses(fd) THEN 1 ELSE 0,
     closeFailed |-> SearchCloses(fd) /\ ~closeOk,
     errno |-> IF r # 0 THEN errno
               ELSE IF SearchCloses(fd) /\ ~closeOk THEN "EIO" ELSE errno]

\* History entry of a finished scan
ScanSummary(o) ==
    [pass |-> "scan", pred |-> o.pred, n1 |-> o.n1, aligned |-> o.aligned,
     err |-> o.err, fromEmpty |-> o.before = <<>>, opened |-> o.fd # -1]

\* The return of __search through out: with ret = r.
ScanOut(o, r, closeOk) ==
    /\ ret' = r
    /\ last' = ScanSummary(o) @@ search_out(o.fd, r, o.errno, closeOk)
    /\ pc' = "idle"
    /\ op' = IdleOp
    /\ windows' = <<>>

\* A call failed: __search sets ret = -1 and goes to out:
ScanFail(o) == [o EXCEPT !.err = -1, !.retSet = TRUE, !.ret = -1,
                         !.errno = "ECALL"]

\* __search up to the region loop: pick the reader, initialise it; if that
\* fails, set ret = -1 and go to out:.
\* reader stands for the outcome of can_read_pid_mem / open_pid_mem, initOk
\* for calloc in __process_ptrace_init.  limit bounds the passes of a behaviour.
ScanBegin(limit, needle, regions, aligned, reader, initOk, heap) ==
    /\ pc = "idle"
    /\ passes < limit
    /\ passes' = passes + 1
    /\ LET o == [IdleOp EXCEPT
                    !.pass = "scan", !.pred = "eq", !.n1 = needle,
                    !.n2 = needle, !.regions = regions,
                    !.aligned = aligned, !.reader = reader,
                    !.fd = IF reader = "pid_mem" THEN 3 ELSE -1,
                    !.heap = heap, !.ri = 1, !.cur = 0,
                    !.before = Entries(chunk, order), !.mut = dirty]
       IN  /\ op' = IF reader = "ptrace" /\ ~initOk THEN ScanFail(o) ELSE o
           /\ pc' = IF reader = "ptrace" /\ ~initOk THEN "s_abort" ELSE "s_region"
    /\ ret' = 0
    /\ windows' = <<>>
    /\ dirty' = FALSE
    /\ evals' = <<>>
    /\ UNCHANGED <<mem, chunk, order, size, mutations, last, seen, aux>>

\* ctx->ops->next(ctx, obj) for the reader in use; slot is what obj points at
ops_next(p, d, slot, ok) ==
    IF p.reader = "ptrace"
    THEN process_ptrace_next(d, p.m, p.aligned, ok, p.heap)
    ELSE process_pid_mem_next(slot) @@ [d |-> d]

\* ops->set of the /proc/<pid>/mem reader: returns 0, records nothing
process_pid_mem_set(d) == [ret |-> 0, d |-> d]

\* ctx->ops->set(ctx, region) for the reader in use
ops_set(p, d, region, failAt) ==
    IF p.reader = "ptrace" THEN process_ptrace_set(d, p.m, region, failAt)
    ELSE process_pid_mem_set(d)

\* Faulty variant of ScanPush: the match is not counted in.
ScanPushNone(c) == c

\* What a window that matched does to the chunk: current_chunk->used++
ScanPush(c) == [c EXCEPT !.used = c.used + 1]

\* new_chunk and match_list_add on the scan state s (the heap, the list, the
\* current chunk, the reader's data, the windows seen); oom: calloc fails.
\* Result: whether a chunk was obtained, and the scan state with it current.
ScanAlloc(s, oom) ==
    IF oom \/ FreeIds(s.chunk) = {} THEN [ok |-> FALSE, s |-> s]
    ELSE [ok |-> TRUE,
          s |-> [s EXCEPT
                    !.chunk[FreshId(s.chunk)] = new_chunk(ChunkCap),
                    !.order = match_list_add(s.order, s.size, FreshId(s.chunk)).order,
                    !.size = match_list_add(s.order, s.size, FreshId(s.chunk)).size,
                    !.cur = FreshId(s.chunk)]]

\* The first free slot of the current chunk: &current_chunk->objects[used]
ScanSlot(s) == s.chunk[s.cur].objects[s.chunk[s.cur].used + 1]

\* The for (;;) loop of process_region from its k-th turn on: a new chunk
\* when the current one is full (ScanLoop), ops->next into the first free
\* slot (ScanTurn), the predicate and used++ on a match (ScanStore).  p holds
\* the arguments (p.oom: new_chunk fails, p.nextFail: the turn from which the
\* target can no longer be peeked, 0 for never).  spin: the loop repeats a
\* turn that changes nothing, so it never ends.
RECURSIVE ScanLoop(_, _, _)
ScanStore(s, p, k, r) ==
    IF r.ret < 0 THEN [s EXCEPT !.d = r.d] @@ [ret |-> -1, spin |-> FALSE]
    ELSE IF r.ret > 0 THEN [s EXCEPT !.d = r.d] @@ [ret |-> 0, spin |-> FALSE]
    ELSE IF ~search_eq(r.obj, p.needle) /\ ScanSlot(s) = r.obj /\ r.d = s.d
         THEN s @@ [ret |-> 0, spin |-> TRUE]
    ELSE ScanLoop(
            [s EXCEPT
                !.d = r.d,
                !.chunk[s.cur].objects[s.chunk[s.cur].used + 1] = r.obj,
                !.chunk[s.cur] = IF search_eq(r.obj, p.needle)
                                 THEN ScanPush(@) ELSE @,
                !.windows = IF p.reader = "ptrace"
                            THEN Append(@, [obj |-> r.obj, ri |-> p.ri])
                            ELSE @],
            p, k + 1)

ScanTurn(a, p, k) ==
    IF ~a.ok THEN a.s @@ [ret |-> -1, spin |-> FALSE]
    ELSE ScanStore(a.s, p, k,
                   ops_next(p, a.s.d, ScanSlot(a.s),
                            p.nextFail = 0 \/ k < p.nextFail))

ScanLoop(s, p, k) ==
    IF s.chunk[s.cur].used >= s.chunk[s.cur].count
    THEN ScanTurn(ScanAlloc(s, p.oom), p, k)
    ELSE ScanTurn([ok |-> TRUE, s |-> s], p, k)

\* process_region from ops->set on; st is what ops->set returned
RegionLoop(s, p, st) ==
    IF st.ret < 0 THEN s @@ [ret |-> -1, spin |-> FALSE]
    ELSE ScanLoop([s EXCEPT !.d = st.d], p, 1)

\* process_region with a current chunk; a says whether there is one
RegionSet(a, p, region) ==
    IF ~a.ok THEN a.s @@ [ret |-> -1, spin |-> FALSE]
    ELSE RegionLoop(a.s, p, ops_set(p, a.s.d, region, p.setFail))

\* process_region(ctx, list, region, match, needle_1, needle_2,
\* &current_chunk): drop a full current chunk, allocate one if there is
\* none, position the reader and run the window loop.  Result: the return
\* value (and spin) with the scan state.
process_region(s, p, region) ==
    IF s.cur = 0 \/ s.chunk[s.cur].used >= s.chunk[s.cur].count
    THEN RegionSet(ScanAlloc(s, p.oom), p, region)
    ELSE RegionSet([ok |-> TRUE, s |-> s], p, region)

\* What the return of process_region does to __search: on -1 set ret = -1
\* and go to out:, else go on with the next region.
ScanApply(r) ==
    /\ chunk' = r.chunk
    /\ order' = r.order
    /\ size' = r.size
    /\ IF r.spin
       THEN /\ op' = [op EXCEPT !.d = r.d, !.cur = r.cur]
            /\ pc' = "s_spin"
            /\ windows' = r.windows
            /\ UNCHANGED <<ret, last>>
       ELSE IF r.ret < 0
       THEN /\ op' = ScanFail([op EXCEPT !.d = r.d, !.cur = r.cur])
            /\ pc' = "s_abort"
            /\ windows' = r.windows
            /\ UNCHANGED <<ret, last>>
       ELSE /\ op' = [op EXCEPT !.d = r.d, !.cur = r.cur,
                                !.err = 0, !.ri = op.ri + 1]
            /\ pc' = "s_region"
            /\ windows' = r.windows
            /\ UNCHANGED <<ret, last>>

\* One turn of the region loop of __search: process_region for the next
\* region, or the end of the list.
ScanRegion(oom, setFail, nextFail) ==
    /\ pc = "s_region"
    /\ IF op.ri > Len(op.regions)
       THEN /\ pc' = "s_out"
            /\ UNCHANGED <<op, chunk, order, size, windows, ret, last>>
       ELSE ScanApply(process_region(
                [chunk |-> chunk, order |-> order, size |-> size,
                 cur |-> op.cur, d |-> op.d, windows |-> windows],
                [m |-> mem, reader |-> op.reader, aligned |-> op.aligned,
                 heap |-> op.heap, needle |-> op.n1, ri |-> op.ri,
                 oom |-> oom, setFail |-> setFail, nextFail |-> nextFail],
                op.regions[op.ri]))
    /\ UNCHANGED <<mem, passes, mutations, dirty, evals, seen, aux>>

\* One more turn of the for (;;) loop of process_region when a turn changes
\* nothing: ops->next returns 0 without gathering anything, the predicate
\* rejects the slot, and the loop comes round to the same place.
ScanSpin ==
    /\ pc = "s_spin"
    /\ op' = [op EXCEPT !.turn = 1 - op.turn]
    /\ UNCHANGED <<mem, chunk, order, size, pc, ret, passes, mutations, dirty,
                   windows, evals, last, seen, aux>>

\* out: of __search and its return.  ret is assigned only on the error
\* paths; after the last region the function returns an indeterminate int.
ScanDone(garbage, closeOk) ==
    /\ pc \in {"s_out", "s_abort"}
    /\ ScanOut(op, IF op.retSet THEN op.ret ELSE garbage, closeOk)
    /\ UNCHANGED <<mem, chunk, order, size, passes, mutations, dirty, evals, seen, aux>>


\* ------------------------------------------------------------ narrow

\* The public narrow entry points: which predicate, and which of them take
\* needles (the others pass NULL).
OneNeedle == {"eq", "ne", "lt", "le", "gt", "ge"}
TwoNeedles == {"gt_lt", "ge_lt", "gt_le", "ge_le"}
Stateful == {"changed", "unchanged", "decreased", "increased"}
NarrowKinds == OneNeedle \cup TwoNeedles \cup Stateful

\* Faulty variant of delete_chunk_object: the last object is not moved into
\* the vacated slot.
DeleteWithoutSwap(c, slot) ==
    IF slot >= c.used THEN c ELSE [c EXCEPT !.used = c.used - 1]

\* delete_chunk_object(chunk, slot), slot counted from 0
delete_chunk_object(c, slot) ==
    IF slot >= c.used THEN c
    ELSE IF slot = c.used - 1 THEN [c EXCEPT !.used = c.used - 1]
    ELSE [c EXCEPT !.used = c.used - 1, !.objects[slot + 1] = c.objects[c.used]]

\* match_list_delete_entry: unlink, count down, free
match_list_delete_entry(ch, ord, sz, id) ==
    [chunk |-> [ch EXCEPT ![id] = NoChunk], order |-> ListDel(ord, id), size |-> sz - 1]

\* History entry of a finished narrow pass
NarrowSummary(o, err) ==
    [pass |-> "narrow", pred |-> o.pred, n1 |-> Needle42, aligned |-> TRUE,
     err |-> err, fromEmpty |-> FALSE]

\* Faulty variant of MatchCloses: the handle is closed only when the pass
\* did not fail.
MatchClosesOnSuccess(reader, r) == reader = "pid_mem" /\ r = 0

\* if (read_actor == __read_pid_mem) ... close_pid_mem(fd), whatever ret (r) is
MatchCloses(reader, r) == reader = "pid_mem"

\* out: of __match: when the pid_mem reader was chosen errno is saved, the
\* handle closed and errno put back.  closeOk is the outcome of close.
\* Result: the calls of close and errno at the return.
match_out(reader, r, errno, closeOk) ==
    [closes |-> IF MatchCloses(reader, r) THEN 1 ELSE 0,
     closeFailed |-> MatchCloses(reader, r) /\ ~closeOk,
     errno |-> errno]

\* The return of __match through out: with ret = r.
NarrowOut(o, r, closeOk) ==
    /\ ret' = r
    /\ last' = NarrowSummary(o, o.err) @@ [opened |-> o.fd # -1]
                    @@ match_out(o.reader, r, o.errno, closeOk)
    /\ pc' = "idle"
    /\ op' = IdleOp
    /\ evals' = <<>>

\* return 0 of __match on an empty list, before a reader is chosen
NarrowEmpty(o) ==
    /\ ret' = 0
    /\ last' = NarrowSummary(o, 0) @@ [opened |-> FALSE, closes |-> 0,
                                       closeFailed |-> FALSE, errno |-> "unset"]
    /\ pc' = "idle"
    /\ op' = IdleOp
    /\ evals' = <<>>

\* __match up to the first loop: return 0 on an empty list, else pick the
\* reader.  reader stands for the outcome of can_read_pid_mem / open_pid_mem;
\* limit bounds the passes of a behaviour.
NarrowBegin(limit, kind, n1, n2, reader) ==
    /\ pc = "idle"
    /\ passes < limit
    /\ passes' = passes + 1
    /\ dirty' = FALSE
    /\ windows' = <<>>
    /\ LET o == [IdleOp EXCEPT
                    !.pass = "narrow", !.pred = kind, !.n1 = n1, !.n2 = n2,
                    !.reader = reader,
                    !.fd = IF reader = "pid_mem" THEN 3 ELSE -1,
                    !.entry = FirstNode(order),
                    !.next = IF order = <<>> THEN 0
                             ELSE NextNode(order, FirstNode(order)),
                    !.before = Entries(chunk, order), !.mut = dirty]
       IN  IF order = <<>>
           THEN NarrowEmpty(o)
           ELSE /\ pc' = "n_chunk"
                /\ op' = o
                /\ ret' = 0
                /\ evals' = <<>>
                /\ UNCHANGED last
    /\ UNCHANGED <<mem, chunk, order, size, mutations, seen, aux>>

\* Faulty variant of NarrowKeep: the payload of the kept slot is cleared.
NarrowKeepZeroed(c, i, tmp) == [c EXCEPT !.objects[i + 1].v = ZeroBytes]

\* What a candidate that matched leaves in its slot (Found a match: ++i)
NarrowKeep(c, i, tmp) == c

\* The while (i < header->used) loop of __match over the chunk c, from slot
\* i and the k-th read on: read the candidate's current value (NarrowLoop),
\* evaluate the predicate on (stored object, object read, needles), delete
\* the slot on a miss and advance on a match (NarrowSlot).  p.failAt is the
\* read from which the target can no longer be read (0 for never).
RECURSIVE NarrowLoop(_, _, _, _, _)
NarrowSlot(c, i, ev, p, k, rd) ==
    IF rd.ret < 0
    THEN [c |-> c, err |-> -1, evals |-> ev, bad |-> c.objects[i + 1].addr]
    ELSE IF ~MatchFn(p.pred, c.objects[i + 1], rd.obj, p.n1, p.n2)
    THEN NarrowLoop(delete_chunk_object(c, i), i,
                    Append(ev, c.objects[i + 1]), p, k + 1)
    ELSE NarrowLoop(NarrowKeep(c, i, rd.obj), i + 1,
                    Append(ev, c.objects[i + 1]), p, k + 1)

NarrowLoop(c, i, ev, p, k) ==
    IF i >= c.used THEN [c |-> c, err |-> 0, evals |-> ev, bad |-> 0]
    ELSE NarrowSlot(c, i, ev, p, k,
                    get_match_object(p.m, p.reader, c.objects[i + 1].addr,
                                     p.failAt = 0 \/ k < p.failAt))

\* What the end of the while loop does to __match: r is the chunk as the
\* loop left it.  A failed read sets ret = -1 and goes to out:; else the chunk is
\* removed if it was emptied and the loop steps to the next chunk; after the
\* last chunk the consolidation starts.
NarrowApply(r) ==
    IF r.err < 0
    THEN /\ chunk' = [chunk EXCEPT ![op.entry] = r.c]
         /\ op' = [op EXCEPT !.err = -1, !.retSet = TRUE, !.ret = -1,
                             !.bad = r.bad, !.errno = "ECALL"]
         /\ pc' = "n_abort"
         /\ evals' = r.evals
         /\ UNCHANGED <<order, size, ret, last>>
    ELSE LET l == IF r.c.used = 0
                  THEN match_list_delete_entry(chunk, order, size, op.entry)
                  ELSE [chunk |-> [chunk EXCEPT ![op.entry] = r.c],
                        order |-> order, size |-> size]
         IN  /\ chunk' = l.chunk
             /\ order' = l.order
             /\ size' = l.size
             /\ evals' = r.evals
             /\ UNCHANGED <<ret, last>>
             /\ IF op.next # 0
                THEN /\ op' = [op EXCEPT !.entry = op.next,
                                         !.next = NextNode(l.order, op.next)]
                     /\ pc' = "n_chunk"
                ELSE /\ op' = [op EXCEPT
                                  !.entry = FirstNode(l.order),
                                  !.next = IF l.order = <<>> THEN 0
                                           ELSE NextNode(l.order, FirstNode(l.order)),
                                  !.cur = 0]
                     /\ pc' = "n_compact"

\* One turn of the first list_for_each_safe loop of __match: the slots of
\* one chunk.
NarrowChunk(failAt) ==
    /\ pc = "n_chunk"
    /\ NarrowApply(NarrowLoop(chunk[op.entry], 0, evals,
                              [m |-> mem, reader |-> op.reader, pred |-> op.pred,
                               n1 |-> op.n1, n2 |-> op.n2, failAt |-> failAt], 1))
    /\ UNCHANGED <<mem, passes, mutations, dirty, windows, seen, aux>>

\* Faulty variant of CopyObjects: the objects are taken from the head of
\* the source, whatever `from` says.
CopyObjectsFromHead(dst, src, from, n) ==
    [dst EXCEPT !.objects = [k \in 1..dst.count |->
        IF k > dst.used /\ k <= dst.used + n
        THEN src.objects[k - dst.used]
        ELSE dst.objects[k]]]

\* memcpy(&dst->objects[dst->used], &src->objects[from], n objects)
CopyObjects(dst, src, from, n) ==
    [dst EXCEPT !.objects = [k \in 1..dst.count |->
        IF k > dst.used /\ k <= dst.used + n
        THEN src.objects[from + (k - dst.used)]
        ELSE dst.objects[k]]]

\* Faulty variant of Drain: the moved objects stay counted in their source.
DrainForgotten(c, n) == c

\* header->used -= current_delta
Drain(c, n) == [c EXCEPT !.used = c.used - n]

\* Faulty variant of FitsEntirely: only an empty chunk is merged whole.
FitsOnlyIfEmpty(header, cur) == header.used = 0

\* Faulty variant of FitsEntirely: measured against the capacity of the
\* current chunk instead of the room left in it.
FitsByCapacity(header, cur) == header.used < cur.count

\* "Can fit entirely in current chunk": header->used < current_delta
FitsEntirely(header, cur) == header.used < cur.count - cur.used

\* Faulty variant of CompactBody: the consolidation leaves every chunk as
\* it is.
CompactSkipped(ch, ord, sz, header, cur) ==
    [chunk |-> ch, order |-> ord, size |-> sz, cur |-> cur]

\* The body of the consolidation loop of __match for the chunk `header`,
\* with current_chunk = cur (0 for NULL).  Result: the heap, the list and
\* the new current_chunk.
CompactBody(ch, ord, sz, header, cur) ==
    LET same == [chunk |-> ch, order |-> ord, size |-> sz, cur |-> cur]
    IN  IF ch[header].used = ch[header].count THEN same
        ELSE IF cur = 0 THEN [same EXCEPT !.cur = header]
        ELSE
          LET delta == ch[cur].count - ch[cur].used
          IN  IF FitsEntirely(ch[header], ch[cur])
              THEN \* fits entirely; always move into the bigger chunk
                LET sw == ch[header].count > ch[cur].count
                    h == IF sw THEN cur ELSE header
                    c == IF sw THEN header ELSE cur
                    filled == [CopyObjects(ch[c], ch[h], 0, ch[h].used)
                                 EXCEPT !.used = ch[c].used + ch[h].used]
                    l == match_list_delete_entry([ch EXCEPT ![c] = filled],
                                                 ord, sz, h)
                IN  [chunk |-> l.chunk, order |-> l.order, size |-> l.size,
                     cur |-> IF filled.used = filled.count THEN 0 ELSE c]
              ELSE \* does not fit: fill one chunk from the end of the other
                LET sw == (ch[header].count - ch[header].used) < delta
                    h == IF sw THEN cur ELSE header
                    c == IF sw THEN header ELSE cur
                    d2 == ch[c].count - ch[c].used
                    filled == [CopyObjects(ch[c], ch[h], ch[h].used - d2, d2)
                                 EXCEPT !.used = ch[c].used + d2]
                    drained == Drain(ch[h], d2)
                IN  [chunk |-> [ch EXCEPT ![c] = filled, ![h] = drained],
                     order |-> ord, size |-> sz, cur |-> h]

\* What one turn of the consolidation loop leaves (l) and the step of
\* list_for_each_safe
CompactApply(l) ==
    /\ chunk' = l.chunk
    /\ order' = l.order
    /\ size' = l.size
    /\ op' = [op EXCEPT !.cur = l.cur, !.entry = op.next,
                        !.next = IF op.next = 0 THEN 0
                                 ELSE NextNode(l.order, op.next)]
    /\ pc' = "n_compact"

\* One turn of the consolidation loop; past the last chunk, ret = 0.
NarrowCompact ==
    /\ pc = "n_compact"
    /\ IF op.entry = 0
       THEN /\ op' = [op EXCEPT !.retSet = TRUE, !.ret = 0]
            /\ pc' = "n_out"
            /\ UNCHANGED <<chunk, order, size>>
       ELSE CompactApply(CompactBody(chunk, order, size, op.entry, op.cur))
    /\ UNCHANGED <<mem, ret, passes, mutations, dirty, windows, evals, last, seen, aux>>

\* out: of __match and its return, after the consolidation or after a
\* failed read
NarrowDone(closeOk) ==
    /\ pc \in {"n_out", "n_abort"}
    /\ NarrowOut(op, op.ret, closeOk)
    /\ UNCHANGED <<mem, chunk, order, size, passes, mutations, dirty, windows, seen, aux>>

\* ------------------------------------------------------------ environment

\* The target runs between two passes and stores v at word a.
Mutate(a, v) ==
    /\ pc = "idle"
    /\ passes > 0
    /\ mutations < MaxMutations
    /\ mem[a] # v
    /\ mem' = [mem EXCEPT ![a] = v]
    /\ mutations' = mutations + 1
    /\ dirty' = TRUE
    /\ UNCHANGED <<chunk, order, size, pc, op, ret, passes, windows, evals, last, seen, aux>>

\* match_list_clear: free every chunk, match_list_init
Clear ==
    /\ pc = "idle"
    /\ order # <<>>
    /\ chunk' = [c \in ChunkIds |-> NoChunk]
    /\ order' = <<>>
    /\ size' = 0
    /\ UNCHANGED <<mem, pc, op, ret, passes, mutations, dirty, windows, evals, last, seen, aux>>

\* ------------------------------------------------------------ snapshots
\* Single snapshots of the last bytes of the first region, taken outside of
\* a pass: the object the scan path builds from a window of n bytes and the
\* object the narrow path reads when n bytes are left before the end of the
\* mapping.

\* The words the last word of the first region holds when snapshots are
\* taken: -1, 0x12345, 42, -129, UINT32_MAX, 0x0807060504030201, and two
\* words whose last five bytes read 42 and 298.
ProbeWords ==
    { [i \in 1..8 |-> 255],
      <<69, 35, 1, 0, 0, 0, 0, 0>>,
      V42,
      [i \in 1..8 |-> IF i = 1 THEN 127 ELSE 255],
      <<255, 255, 255, 255, 0, 0, 0, 0>>,
      <<1, 2, 3, 4, 5, 6, 7, 8>>,
      <<0, 0, 0, 42, 0, 0, 0, 0>>,
      <<0, 0, 0, 42, 1, 0, 0, 0>> }

\* The tail of __process_ptrace_next_unaligned for a window of n bytes at
\* addr: the payload is zeroed, n bytes are copied, set_match_flags(obj, n).
window_object(m, addr, n) ==
    [addr |-> addr, v |-> MemBytes(m, addr, n), flags |-> set_match_flags(n)]

\* A window of the last n bytes of the first region
ScanWindow(n) ==
    /\ pc = "idle"
    /\ seen' = [path |-> "scan", n |-> n,
                obj |-> window_object(mem, R1.end - n, n)]
    /\ UNCHANGED <<mem, chunk, order, size, pc, op, ret, passes, mutations,
                   dirty, windows, evals, last, aux>>

\* get_match_object through /proc/<pid>/mem on the last n bytes of the
\* first region
Reread(n) ==
    /\ pc = "idle"
    /\ seen' = [path |-> "narrow", n |-> n,
                obj |-> get_match_object(mem, "pid_mem", R1.end - n, TRUE).obj]
    /\ UNCHANGED <<mem, chunk, order, size, pc, op, ret, passes, mutations,
                   dirty, windows, evals, last, aux>>

\* ------------------------------------------------------------ predicates
\* A narrow predicate called on its own, as __match calls it on a stored
\* entry and the object it has just read at the entry's address.

\* The payload of -1: every byte 0xFF
Ones == [i \in 1..8 |-> 255]

\* Payloads of the stored entry and of the value read
PredValues == {V40, V41, V42, V43, V298, Ones}

\* Flags a stored entry carries: from a one-byte window, from a parsed
\* integer, from an eight-byte window, from five bytes holding 298, from
\* five bytes holding a value above UINT32_MAX
StoredFlagSets ==
    {{"i8"}, {"i8", "i16", "i32", "i64"}, AllFlags, {"i16", "i32", "f32"},
     {"f32"}}

\* Needles of the direct calls: 40 and 42 at every integer width, -1 at 64
\* bits, 42 at 8 bits
NeedleOnes == [v |-> Ones, flags |-> {"i64"}]
Needle42i8 == [v |-> V42, flags |-> {"i8"}]
PredNeedles == {Needle40, Needle42, NeedleOnes, Needle42i8}

\* if (!match(obj, &tmp, needle_1, needle_2)) with obj and tmp as drawn
Judge(kind, n1, n2) ==
    /\ verdict.kind = "none"
    /\ verdict' = [verdict EXCEPT
                     !.kind = kind, !.n1 = n1, !.n2 = n2,
                     !.keep = MatchFn(kind, verdict.orig, verdict.new, n1, n2)]
    /\ UNCHANGED <<mem, chunk, order, size, pc, op, ret, passes, mutations,
                   dirty, windows, evals, last, seen, parsed, rlist, maps, view,
                   cut, tracer>>

\* ------------------------------------------------------------ needles
\* The needle parser called on a text.

\* The state of the engine, which the calls outside of it leave alone
engine == <<mem, chunk, order, size, pc, op, ret, passes, mutations, dirty,
            windows, evals, last, seen>>

\* The record of a call of the parser on the text drawn
Parsed(call, r, errno, v, flags) ==
    [text |-> parsed.text, call |-> call, ret |-> r, errno |-> errno,
     v |-> v, flags |-> flags]

\* match_flags_set_integer(value, &flags) on zeroed flags
SetIntegerFlags ==
    /\ parsed.call = "none"
    /\ \E r \in {match_flags_set_integer(parsed.text, {})} :
          parsed' = Parsed("flags", IF r.ok THEN 1 ELSE 0, "0",
                           strtoull(parsed.text).val, r.flags)
    /\ UNCHANGED <<engine, verdict, rlist, maps, view, cut, tracer>>

\* match_needle_init(&needle, value)
NeedleInit ==
    /\ parsed.call = "none"
    /\ \E r \in {match_needle_init(parsed.text)} :
          parsed' = Parsed("init", r.ret, r.errno, r.v, r.flags)
    /\ UNCHANGED <<engine, verdict, rlist, maps, view, cut, tracer>>

\* ------------------------------------------------------------ maps
\* process_pid_maps(pid, &list) on the caller's list, the maps file of the
\* target holding the lines of file

ProcessPidMaps(file, opened, failAt, junk) ==
    /\ maps.calls = 0
    /\ \E r \in {process_pid_maps(file, rlist, opened, failAt, junk)} :
          /\ rlist' = r.list
          /\ maps' = [calls |-> maps.calls + 1, file |-> file,
                      opened |-> opened, junk |-> junk, failAt |-> failAt,
                      ret |-> r.ret, errno |-> r.errno, before |-> rlist]
    /\ UNCHANGED <<engine, verdict, parsed, view, cut, tracer>>

\* ------------------------------------------------------------ filters
\* region_list_filter_<kind> (invert = FALSE) and
\* region_list_filter_out_<kind> (invert = TRUE) on the caller's list

Filter(kind, arg, invert, failAt, ub) ==
    /\ view.kind = "none"
    /\ view' = [kind |-> kind, arg |-> arg, invert |-> invert,
                failAt |-> failAt, ub |-> ub,
                out |-> region_list_filter(rlist, kind, arg, invert, failAt, ub)]
    /\ UNCHANGED <<engine, verdict, parsed, rlist, maps, cut, tracer>>

\* ------------------------------------------------------------ specification

Readers == {"pid_mem", "ptrace"}

\* What goes wrong while a region is processed: new_chunk fails (oom), the
\* set-th peek of ops->set fails, or the target is gone from the next-th
\* turn of the window loop on; at most one of them.
ScanFaults ==
    {[oom |-> FALSE, set |-> 0, next |-> 0], [oom |-> TRUE, set |-> 0, next |-> 0]}
    \cup {[oom |-> FALSE, set |-> i, next |-> 0] : i \in 1..WINDOW_ENTRIES}
    \cup {[oom |-> FALSE, set |-> 0, next |-> k] : k \in 1..MaxFailAt}

\* The needles the narrow entry points are called with: eq and ne with
\* either needle, the relational ones against 42, a range from 40 to 42.
NarrowCalls ==
    {[kind |-> k, n1 |-> n, n2 |-> n] : k \in {"eq", "ne"}, n \in Needles}
    \cup {[kind |-> k, n1 |-> Needle42, n2 |-> Needle42] :
              k \in {"lt", "le", "gt", "ge"} \cup Stateful}
    \cup {[kind |-> k, n1 |-> Needle40, n2 |-> Needle42] : k \in TwoNeedles}

Next ==
    \/ \E needle \in Needles, regions \in RegionSets, aligned \in BOOLEAN,
          reader \in Readers, initOk \in BOOLEAN, heap \in HeapImages :
            /\ (reader = "pid_mem" \/ aligned) => heap = {}
            /\ ScanBegin(MaxPasses, needle, regions, aligned, reader, initOk, heap)
    \/ \E f \in ScanFaults : ScanRegion(f.oom, f.set, f.next)
    \/ ScanSpin
    \/ \E garbage \in {0, -1}, closeOk \in BOOLEAN : ScanDone(garbage, closeOk)
    \/ \E c \in NarrowCalls, reader \in Readers :
            NarrowBegin(MaxPasses, c.kind, c.n1, c.n2, reader)
    \/ \E failAt \in 0..ChunkCap : NarrowChunk(failAt)
    \/ NarrowCompact
    \/ \E closeOk \in BOOLEAN : NarrowDone(closeOk)
    \/ \E a \in MutAddrs, v \in MutValues : Mutate(a, v)
    \/ Clear

Spec == Init /\ [][Next]_vars

\* Sessions of up to MaxSeqPasses passes in which nothing goes wrong: every
\* scan is aligned, with needle 42, through the ptrace reader, every narrow
\* reads through ptrace, and the target stays attached while scanning.
SeqCalls == {c \in NarrowCalls : c.n1 # Needle43}

NextSeq ==
    \/ \E regions \in RegionSets :
            ScanBegin(MaxSeqPasses, Needle42, regions, TRUE, "ptrace", TRUE, {})
    \/ ScanRegion(FALSE, 0, 0)
    \/ \E garbage \in {0, -1} : ScanDone(garbage, TRUE)
    \/ \E c \in SeqCalls : NarrowBegin(MaxSeqPasses, c.kind, c.n1, c.n2, "ptrace")
    \/ \E failAt \in 0..ChunkCap : NarrowChunk(failAt)
    \/ NarrowCompact
    \/ NarrowDone(TRUE)
    \/ \E a \in MutAddrs, v \in MutValues : Mutate(a, v)
    \/ Clear

SpecSeq == Init /\ [][NextSeq]_vars

\* Scans only, with every reader and fault, under the scheduling of the
\* program: a scan that has been called keeps running, so the step of the
\* region loop, the turn of the window loop and the return are taken when
\* they are possible.
ScanStep ==
    \/ \E f \in ScanFaults : ScanRegion(f.oom, f.set, f.next)
    \/ ScanSpin
    \/ \E garbage \in {0, -1}, closeOk \in BOOLEAN : ScanDone(garbage, closeOk)

NextLive ==
    \/ \E needle \in Needles, regions \in RegionSets, aligned \in BOOLEAN,
          reader \in Readers, initOk \in BOOLEAN, heap \in HeapImages :
            /\ (reader = "pid_mem" \/ aligned) => heap = {}
            /\ ScanBegin(MaxPasses, needle, regions, aligned, reader, initOk, heap)
    \/ ScanStep
    \/ Clear

\* A step of ScanStep that leaves the control point the scan is at, told by
\* the control points alone: in NextLive a scan that is running can only
\* take steps of ScanStep, and the region loop runs once per region.
Running == pc \in {"s_region", "s_out", "s_abort"}
ScanMoves == Running /\ pc' \in {"s_out", "s_abort", "s_spin", "idle"}

SpecLive == Init /\ [][NextLive]_vars /\ WF_pc(ScanMoves) /\ WF_vars(ScanSpin)

\* Single snapshots: the last word of the first region holds any of the
\* probe words, and snapshots of its last n bytes are taken on either path.
InitValue ==
    /\ mem \in {[InitMem EXCEPT ![R1.end - WORD] = w] : w \in ProbeWords}
    /\ chunk = [c \in ChunkIds |-> NoChunk]
    /\ order = <<>>
    /\ size = 0
    /\ pc = "idle"
    /\ op = IdleOp
    /\ ret = 0
    /\ passes = 0
    /\ mutations = 0
    /\ dirty = FALSE
    /\ windows = <<>>
    /\ evals = <<>>
    /\ last = NoPass
    /\ seen = NoSnapshot
    /\ AuxInit

NextValue ==
    \/ \E n \in 1..WORD : ScanWindow(n)
    \/ \E n \in 1..WORD : Reread(n)

SpecValue == InitValue /\ [][NextValue]_vars

\* Direct calls of the narrow predicates: a stored entry and a value read at
\* its address are drawn, then one predicate is called on them.
InitPred ==
    /\ mem = InitMem
    /\ chunk = [c \in ChunkIds |-> NoChunk]
    /\ order = <<>>
    /\ size = 0
    /\ pc = "idle"
    /\ op = IdleOp
    /\ ret = 0
    /\ passes = 0
    /\ mutations = 0
    /\ dirty = FALSE
    /\ windows = <<>>
    /\ evals = <<>>
    /\ last = NoPass
    /\ seen = NoSnapshot
    /\ parsed = NoParse
    /\ rlist = NoRegions
    /\ maps = NoMaps
    /\ view = NoView
    /\ cut = NoCut
    /\ tracer = NoTracer
    /\ verdict \in
         {[NoVerdict EXCEPT
             !.orig = [addr |-> 4104, v |-> o, flags |-> f],
             !.new = [addr |-> 4104, v |-> n, flags |-> GetObjFlags(n, WORD)]] :
          o \in PredValues, f \in StoredFlagSets, n \in PredValues}

NextPred ==
    \/ \E kind \in OneNeedle, n \in PredNeedles : Judge(kind, n, NoNeedle)
    \/ \E kind \in TwoNeedles, lo \in PredNeedles, hi \in PredNeedles :
            Judge(kind, lo, hi)
    \/ \E kind \in Stateful : Judge(kind, NoNeedle, NoNeedle)

SpecPred == InitPred /\ [][NextPred]_vars

\* A text is handed to the needle parser.
EngineInit ==
    /\ mem = InitMem
    /\ chunk = [c \in ChunkIds |-> NoChunk]
    /\ order = <<>>
    /\ size = 0
    /\ pc = "idle"
    /\ op = IdleOp
    /\ ret = 0
    /\ passes = 0
    /\ mutations = 0
    /\ dirty = FALSE
    /\ windows = <<>>
    /\ evals = <<>>
    /\ last = NoPass
    /\ seen = NoSnapshot

InitNeedle ==
    /\ EngineInit
    /\ verdict = NoVerdict
    /\ rlist = NoRegions
    /\ maps = NoMaps
    /\ view = NoView
    /\ cut = NoCut
    /\ tracer = NoTracer
    /\ parsed \in {[NoParse EXCEPT !.text = t] : t \in Literals}

NextNeedle == SetIntegerFlags \/ NeedleInit

SpecNeedle == InitNeedle /\ [][NextNeedle]_vars

\* The maps file of the target is parsed into the caller's list, which is
\* fresh or was filled by an earlier parse; the file opens or not, and one
\* call of malloc may fail.
EarlierList ==
    process_pid_maps(<<LineHeap, LineShared>>, NoRegions, TRUE, 0,
                     <<"-", "-", "-", "-">>).list

InitMaps ==
    /\ EngineInit
    /\ verdict = NoVerdict
    /\ parsed = NoParse
    /\ rlist \in {NoRegions, EarlierList}
    /\ maps = NoMaps
    /\ view = NoView
    /\ cut = NoCut
    /\ tracer = NoTracer

NextMaps ==
    \E file \in MapsFiles, opened \in BOOLEAN, failAt \in 0..MaxFailAlloc,
       junk \in JunkPerms :
        ProcessPidMaps(file, opened, failAt, junk)

SpecMaps == InitMaps /\ [][NextMaps]_vars

\* A region list is filtered once: by pathname, basename or pattern, plain
\* or inverted; one call of malloc may fail.
InitFilter ==
    /\ EngineInit
    /\ verdict = NoVerdict
    /\ parsed = NoParse
    /\ rlist \in FilterLists
    /\ maps = NoMaps
    /\ view = NoView
    /\ cut = NoCut
    /\ tracer = NoTracer

NextFilter ==
    \E c \in FilterCalls, invert \in BOOLEAN, failAt \in 0..MaxFailFilter,
       ub \in NullWrites :
        Filter(c.kind, c.arg, invert, failAt, ub)

SpecFilter == InitFilter /\ [][NextFilter]_vars

\* A chunk with some of its slots used loses one slot, or is handed a slot
\* it does not use; slots above used hold what earlier deletions left there.
CutObj(n) == [addr |-> 4096 + WORD * n, v |-> IF n % 2 = 0 THEN V42 ELSE V43, flags |-> {}]

CutChunks ==
    {[used |-> u, count |-> ChunkCap, objects |-> [i \in 1..ChunkCap |-> CutObj(f[i])]] :
        u \in 0..ChunkCap, f \in [1..ChunkCap -> 0..ChunkCap]}

InitDelete ==
    /\ EngineInit
    /\ verdict = NoVerdict
    /\ parsed = NoParse
    /\ rlist = NoRegions
    /\ maps = NoMaps
    /\ view = NoView
    /\ tracer = NoTracer
    /\ cut \in {[NoCut EXCEPT !.c = c] : c \in CutChunks}

\* One call of delete_chunk_object on the chunk
DeleteChunkObject(slot) ==
    /\ cut.calls < MaxCuts
    /\ cut' = [before |-> cut.c, slot |-> slot, calls |-> cut.calls + 1,
               c |-> delete_chunk_object(cut.c, slot)]
    /\ UNCHANGED <<engine, verdict, parsed, rlist, maps, view, tracer>>

NextDelete == \E slot \in 0..ChunkCap : DeleteChunkObject(slot)

SpecDelete == InitDelete /\ [][NextDelete]_vars

\* ---------------------------------------------------------------------
\* The tracer's record of the tracee: struct ptracer_ctx and the calls that
\* resume, stop and wait for the tracee.
\* ---------------------------------------------------------------------
PTRACER_PROC_STATE_DEAD == 0
PTRACER_PROC_STATE_RUNNING == 2
PTRACER_PROC_STATE_SIG_STOPPED == 4
PTRACER_PROC_STATE_PTRACE_STOPPED == 12

MaxCalls == 3

\* ptracer_init: memset(ctx, 0, sizeof(*ctx))
ptracer_init ==
    [current_state |-> 0, expected_next_state |-> 0, process_status |-> "none"]

\* ptracer_cont: the context after the call and the request that went out
ptracer_cont(ctx) ==
    [ctx |-> [ctx EXCEPT !.expected_next_state = PTRACER_PROC_STATE_PTRACE_STOPPED],
     request |-> IF ctx.current_state = PTRACER_PROC_STATE_SIG_STOPPED
                 THEN "SIGCONT" ELSE "PTRACE_SYSCALL"]

\* ptracer_stop
ptracer_stop(ctx) ==
    [ctx |-> [ctx EXCEPT !.expected_next_state = PTRACER_PROC_STATE_SIG_STOPPED],
     request |-> "SIGSTOP"]

\* ptracer_singlestep
ptracer_singlestep(ctx) ==
    [ctx |-> [ctx EXCEPT !.expected_next_state = PTRACER_PROC_STATE_PTRACE_STOPPED],
     request |-> "PTRACE_SINGLESTEP"]

\* ptracer_attach
ptracer_attach(ctx) ==
    [ctx |-> [ctx EXCEPT !.expected_next_state = PTRACER_PROC_STATE_PTRACE_STOPPED],
     request |-> "PTRACE_ATTACH"]

\* ptracer_waitpid: got is what waitpid(2) gave (-1 error, 0 nothing changed,
\* 1 a status), status the wait status it stored
ptracer_waitpid(ctx, got, status) ==
    IF got <= 0 THEN ctx
    ELSE [ctx EXCEPT
            !.current_state =
                IF status \in {"exited", "signaled"} THEN PTRACER_PROC_STATE_DEAD
                ELSE IF status = "stopped SIGSTOP" THEN PTRACER_PROC_STATE_SIG_STOPPED
                ELSE IF status = "stopped SIGTRAP" THEN PTRACER_PROC_STATE_PTRACE_STOPPED
                ELSE ctx.current_state,
            !.process_status = status]

\* The wait statuses of a tracee
WaitStatuses == {"exited", "signaled", "stopped SIGSTOP", "stopped SIGTRAP", "continued"}

\* A call that sends one request to the tracee; the system call behind it
\* succeeds or fails, and the call returns 0 or 1 accordingly.
Request(fn, r, ok) ==
    /\ tracer.pc = "ctx"
    /\ tracer.calls < MaxCalls
    /\ tracer' = [pc |-> "ctx", ctx |-> r.ctx, request |-> r.request,
                  ret |-> IF ok THEN 0 ELSE 1, last |-> fn,
                  prev |-> tracer.ctx.current_state, calls |-> tracer.calls + 1]
    /\ UNCHANGED <<engine, verdict, parsed, rlist, maps, view, cut>>

PtracerCont(ok) == Request("ptracer_cont", ptracer_cont(tracer.ctx), ok)
PtracerStop(ok) == Request("ptracer_stop", ptracer_stop(tracer.ctx), ok)
PtracerSinglestep(ok) == Request("ptracer_singlestep", ptracer_singlestep(tracer.ctx), ok)
PtracerAttach(ok) == Request("ptracer_attach", ptracer_attach(tracer.ctx), ok)

PtracerWaitpid(got, status) ==
    /\ tracer.pc = "ctx"
    /\ tracer.calls < MaxCalls
    /\ tracer' = [pc |-> "ctx", ctx |-> ptracer_waitpid(tracer.ctx, got, status),
                  request |-> "none", ret |-> got, last |-> "ptracer_waitpid",
                  prev |-> tracer.ctx.current_state, calls |-> tracer.calls + 1]
    /\ UNCHANGED <<engine, verdict, parsed, rlist, maps, view, cut>>

InitTracer ==
    /\ EngineInit
    /\ verdict = NoVerdict
    /\ parsed = NoParse
    /\ rlist = NoRegions
    /\ maps = NoMaps
    /\ view = NoView
    /\ cut = NoCut
    /\ tracer = [pc |-> "ctx", ctx |-> ptracer_init, request |-> "none", ret |-> 0,
                 last |-> "ptracer_init", prev |-> 0, calls |-> 0]

NextTracer ==
    \/ \E ok \in BOOLEAN : PtracerAttach(ok)
    \/ \E ok \in BOOLEAN : PtracerCont(ok)
    \/ \E ok \in BOOLEAN : PtracerStop(ok)
    \/ \E ok \in BOOLEAN : PtracerSinglestep(ok)
    \/ \E got \in {-1, 0, 1}, status \in WaitStatuses : PtracerWaitpid(got, status)

SpecTracer == InitTracer /\ [][NextTracer]_vars

\* ---------------------------------------------------------------------
\* Breakpoints: ptracer_set_breakpoint, ptracer_run and the trap handling
\* of src/lib/ptracer/ptracer.c.  A word of the tracee's text is the pair
\* <<its lowest byte, its other bytes>>; no ptrace request fails.
\* ---------------------------------------------------------------------
TRAP == 204

MaxBreakpoints == 3
MaxHits == 2

\* Instruction addresses of the tracee and the words it was loaded with
BpAddrs == {4096, 4112}
TextInit == (4096 :> <<85, 1>>) @@ (4112 :> <<72, 2>>)

\* A stop of the tracee for a signal of its own, away from every breakpoint
ElseStop == [status |-> "stopped", ip |-> 4128]

\* calloc(1, sizeof(*node)) with callback and addr filled in
NewBreakpoint(id, addr) == [id |-> id, addr |-> addr, orig_data |-> <<0, 0>>]

\* breakpoint_enable: the node and the text after the call
breakpoint_enable(text, node) ==
    LET data == text[node.addr]
    IN  [node |-> [node EXCEPT !.orig_data = data],
         text |-> [text EXCEPT ![node.addr] = <<TRAP, data[2]>>]]

\* breakpoint_disable: the text after the call
breakpoint_disable(text, node) == [text EXCEPT ![node.addr] = node.orig_data]

RECURSIVE EnableFrom(_, _, _)
\* The loop of ptracer_run over the list, from position i
EnableFrom(bps, text, i) ==
    IF i > Len(bps) THEN [breakpoints |-> bps, text |-> text]
    ELSE LET e == breakpoint_enable(text, bps[i])
         IN  EnableFrom([bps EXCEPT ![i] = e.node], e.text, i + 1)

\* find_breakpoint_node: position of the first node with that address, 0 for NULL
find_breakpoint_node(bps, ip) ==
    IF \E i \in 1..Len(bps) : bps[i].addr = ip
    THEN CHOOSE i \in 1..Len(bps) :
            /\ bps[i].addr = ip
            /\ \A j \in 1..(i - 1) : bps[j].addr # ip
    ELSE 0

\* What a wait on the continued tracee can report: it exited, it ran into a
\* trap byte and stopped one byte after it, or it stopped somewhere else.
Stops(text) ==
    {[status |-> "exited", ip |-> 0], ElseStop}
        \cup {[status |-> "stopped", ip |-> a + 1] : a \in {x \in BpAddrs : text[x][1] = TRAP}}

NewTracer ==
    [pc |-> "new", started |-> FALSE, breakpoints |-> <<>>, text |-> TextInit, ip |-> 0,
     current |-> 0, made |-> 0, hits |-> 0, restored |-> <<>>]

\* After __ptrace_cont_and_wait in ptracer_run and breakpoint_resume
Waited(t, w) ==
    IF w.status = "exited" THEN [t EXCEPT !.pc = "done"]
    ELSE [t EXCEPT !.pc = "stopped", !.ip = w.ip]

\* ptracer_set_breakpoint(ctx, addr, cb), before the run or from a callback
PtracerSetBreakpoint(addr) ==
    /\ tracer.pc \in {"new", "run_callback", "callback"}
    /\ tracer.made < MaxBreakpoints
    /\ LET node == NewBreakpoint(tracer.made + 1, addr)
           e == breakpoint_enable(tracer.text, node)
       IN  tracer' =
             IF tracer.started
             THEN [tracer EXCEPT !.breakpoints = <<e.node>> \o @, !.text = e.text,
                                 !.made = @ + 1]
             ELSE [tracer EXCEPT !.breakpoints = <<node>> \o @, !.made = @ + 1]
    /\ UNCHANGED <<engine, verdict, parsed, rlist, maps, view, cut>>

\* ptracer_run up to the call of run_callback
PtracerRun ==
    /\ tracer.pc = "new"
    /\ LET e == EnableFrom(tracer.breakpoints, tracer.text, 1)
       IN  tracer' = [tracer EXCEPT !.pc = "run_callback", !.started = TRUE,
                                    !.breakpoints = e.breakpoints, !.text = e.text,
                                    !.current = 0]
    /\ UNCHANGED <<engine, verdict, parsed, rlist, maps, view, cut>>

\* run_callback returns; the tracee is continued and waited for
RunContinue(w) ==
    /\ tracer.pc = "run_callback"
    /\ w \in Stops(tracer.text)
    /\ tracer' = Waited(tracer, w)
    /\ UNCHANGED <<engine, verdict, parsed, rlist, maps, view, cut>>

\* The top of the loop: no breakpoint at ip - 1, continue and wait
RunPassStop(w) ==
    /\ tracer.pc = "stopped"
    /\ find_breakpoint_node(tracer.breakpoints, tracer.ip - 1) = 0
    /\ tracer.hits < MaxHits
    /\ w \in Stops(tracer.text)
    /\ tracer' = Waited([tracer EXCEPT !.hits = @ + 1], w)
    /\ UNCHANGED <<engine, verdict, parsed, rlist, maps, view, cut>>

\* The top of the loop: the breakpoint at ip - 1 is found and its callback called
RunHit ==
    /\ tracer.pc = "stopped"
    /\ find_breakpoint_node(tracer.breakpoints, tracer.ip - 1) # 0
    /\ tracer.hits < MaxHits
    /\ LET n == find_breakpoint_node(tracer.breakpoints, tracer.ip - 1)
       IN  tracer' = [tracer EXCEPT !.pc = "callback", !.hits = @ + 1,
                                    !.current = tracer.breakpoints[n].id]
    /\ UNCHANGED <<engine, verdict, parsed, rlist, maps, view, cut>>

\* breakpoint_resume(ctx, node) once the callback has returned: stepped says
\* whether the tracee outlived the single step, w what the wait after the
\* continue reported
BreakpointResume(stepped, w) ==
    /\ tracer.pc = "callback"
    /\ LET n == CHOOSE i \in 1..Len(tracer.breakpoints) :
                    tracer.breakpoints[i].id = tracer.current
           node == tracer.breakpoints[n]
           off == breakpoint_disable(tracer.text, node)
           e == breakpoint_enable(off, node)
       IN  IF ~stepped
           THEN /\ w.status = "exited"
                /\ tracer' = [tracer EXCEPT !.pc = "done", !.ip = node.addr, !.text = off,
                                            !.restored = <<node.addr, off[node.addr]>>]
           ELSE /\ w \in Stops(e.text)
                /\ tracer' = Waited([tracer EXCEPT !.ip = node.addr, !.text = e.text,
                                       !.breakpoints[n] = e.node,
                                       !.restored = <<node.addr, off[node.addr]>>], w)
    /\ UNCHANGED <<engine, verdict, parsed, rlist, maps, view, cut>>

WaitResults == {[status |-> "exited", ip |-> 0], ElseStop}
                  \cup {[status |-> "stopped", ip |-> a + 1] : a \in BpAddrs}

InitBreak ==
    /\ EngineInit
    /\ verdict = NoVerdict
    /\ parsed = NoParse
    /\ rlist = NoRegions
    /\ maps = NoMaps
    /\ view = NoView
    /\ cut = NoCut
    /\ tracer = NewTracer

NextBreak ==
    \/ \E addr \in BpAddrs : PtracerSetBreakpoint(addr)
    \/ PtracerRun
    \/ \E w \in WaitResults : RunContinue(w)
    \/ \E w \in WaitResults : RunPassStop(w)
    \/ RunHit
    \/ \E stepped \in BOOLEAN, w \in WaitResults : BreakpointResume(stepped, w)

SpecBreak == InitBreak /\ [][NextBreak]_vars

\* Scans through the word-peek reader in which nothing fails, in either
\* mode, over region sets that include the one-word region.
ReaderRegionSets == {<<R3>>, <<R1>>, <<R2>>, <<R2, R3>>, <<R3, R1>>}

NextReader ==
    \/ \E needle \in Needles, regions \in ReaderRegionSets, aligned \in BOOLEAN,
          heap \in HeapImages :
            /\ aligned => heap = {}
            /\ ScanBegin(MaxPasses, needle, regions, aligned, "ptrace", TRUE, heap)
    \/ ScanRegion(FALSE, 0, 0)
    \/ \E garbage \in {0, -1} : ScanDone(garbage, TRUE)
    \/ Clear

SpecReader == Init /\ [][NextReader]_vars

\* ------------------------------------------------------------ properties

NarrowPcs == {"n_chunk", "n_compact", "n_out"}
ScanPcs == {"s_region", "s_spin", "s_out"}

\* The candidates of the match list, in list order
Store == Entries(chunk, order)

Range(sq) == {sq[i] : i \in 1..Len(sq)}
AddrsOf(sq) == {sq[i].addr : i \in 1..Len(sq)}
Count(sq, x) == Cardinality({i \in 1..Len(sq) : sq[i] = x})
CountAddr(sq, a) == Cardinality({i \in 1..Len(sq) : sq[i].addr = a})
SameBag(a, b) ==
    /\ Len(a) = Len(b)
    /\ \A x \in Range(a) \cup Range(b) : Count(a, x) = Count(b, x)
IsPrefix(a, b) == Len(a) <= Len(b) /\ \A i \in 1..Len(a) : a[i] = b[i]

\* What the pass in progress reads at addr, the target being attached
Fresh(addr) == get_match_object(mem, op.reader, addr, TRUE).obj

\* The predicate of the narrow pass in progress on a stored entry
Holds(e) == MatchFn(op.pred, e, Fresh(e.addr), op.n1, op.n2)

\* The windows of the scan in progress that its predicate accepted, and the
\* entries the scan has added behind those it found in the list
Matched == SelectSeq(windows, LAMBDA w : search_eq(w.obj, op.n1))
Added == SubSeq(Store, Len(op.before) + 1, Len(Store))

RECURSIVE SumUsed(_, _)
SumUsed(ch, ord) ==
    IF ord = <<>> THEN 0 ELSE ch[Head(ord)].used + SumUsed(ch, Tail(ord))

\* The call of example E1: an aligned scan(eq, 42) of the region holding
\* 41, 42, 43 into an empty list
E1Call ==
    /\ op.regions = <<R1>> /\ op.aligned /\ op.n1 = Needle42
    /\ op.before = <<>>
    /\ mem[4096] = V41 /\ mem[4104] = V42 /\ mem[4112] = V43

\* The last pass was a scan that returned through its success path, into an
\* empty list, and the target has not stored anything since it began.
AfterCleanScan ==
    /\ last.pass = "scan" /\ last.err = 0 /\ last.fromEmpty
    /\ ~op.mut

\* C1: when a narrow pass reaches its return without a read error, the
\* addresses in the list are exactly the addresses of the starting
\* candidates for which the predicate held on (stored entry, value read now,
\* needles), and the pass evaluated every starting candidate exactly once.
C1_NarrowKeepsWhatHolds ==
    pc = "n_out" =>
        /\ AddrsOf(Store) = {e.addr : e \in {x \in Range(op.before) : Holds(x)}}
        /\ SameBag(evals, op.before)

\* A pass that dropped the first candidate of a chunk and kept the one that
\* the deletion moved into its slot.
C1_Witness ==
    /\ pc = "n_out"
    /\ Len(op.before) >= 3
    /\ ~Holds(op.before[1])
    /\ Holds(op.before[3])
    /\ op.before[3].addr \in AddrsOf(Store)

\* C2: when a scan reaches its return after the last region, the entries it
\* added are the windows its reader produced for which the predicate held,
\* one entry per such window with the window's address, value and flags; and
\* the scan of E1 leaves the single entry (0x1008, 42, all six flags).
C2_ScanAddsMatchingWindows ==
    pc = "s_out" =>
        /\ Added = [i \in 1..Len(Matched) |-> Matched[i].obj]
        /\ E1Call => Store = <<[addr |-> 4104, v |-> V42, flags |-> AllFlags]>>

C2_Witness ==
    /\ pc = "s_out"
    /\ E1Call
    /\ Len(windows) = 3
    /\ Len(Matched) = 1
    /\ Len(Store) = 1

C4_UsedWithinCapacity ==
    \A i \in 1..Len(order) :
        /\ 0 <= chunk[order[i]].used
        /\ chunk[order[i]].used <= chunk[order[i]].count

\* The partial move of the consolidation has filled one chunk and emptied
\* the other, which stays linked.
C4_Witness ==
    /\ pc = "n_out"
    /\ \E i, j \in 1..Len(order) :
        /\ chunk[order[i]].used = chunk[order[i]].count
        /\ chunk[order[j]].used = 0

C6_ScanAppends ==
    pc \in ScanPcs =>
        /\ IsPrefix(op.before, Store)
        /\ pc = "s_out" =>
              Range(Store) = Range(op.before) \cup {w.obj : w \in Range(Matched)}

C6_Witness ==
    /\ pc = "s_out"
    /\ op.before # <<>>
    /\ Len(Store) > Len(op.before)

\* C7 as stated: the entries a scan added are in region-set order and,
\* within a region, in strictly increasing address order.
C7_ScanOrder ==
    pc = "s_out" =>
        /\ Added = [i \in 1..Len(Matched) |-> Matched[i].obj]
        /\ \A i, j \in 1..Len(Matched) :
              i < j =>
                  /\ Matched[i].ri <= Matched[j].ri
                  /\ Matched[i].ri = Matched[j].ri =>
                        Matched[i].obj.addr < Matched[j].obj.addr

\* C8 as stated, on its example: an aligned scan has left the entry
\* (0x1008, 42), the target has stored 40 at 0x1008, and narrow(decreased)
\* reaches its return;
\* then the list holds one entry, at 0x1008, whose value is 40, the value
\* the pass read.
C8_KeptHoldsValueRead ==
    (/\ pc = "n_out" /\ op.pred = "decreased"
     /\ last.pass = "scan" /\ last.aligned /\ last.err = 0
     /\ Len(op.before) = 1
     /\ op.before[1].addr = 4104 /\ op.before[1].v = V42
     /\ mem[4104] = V40)
        => /\ Len(Store) = 1
           /\ Store[1].addr = 4104
           /\ Store[1].v = Fresh(4104).v
           /\ Store[1].v = V40

\* C9 as stated: narrow(ne, v) after an aligned scan(eq, v), the target
\* unchanged, leaves the list empty.
C9_ScanEqNarrowNeEmpty ==
    (/\ pc = "n_out" /\ op.pred = "ne"
     /\ AfterCleanScan /\ last.aligned /\ last.n1 = op.n1)
        => Store = <<>>

\* C10 as stated: narrow(unchanged) on the list a scan produced, the target
\* unchanged, leaves the entries as they were.
C10_UnchangedKeepsAll ==
    (pc = "n_out" /\ op.pred = "unchanged" /\ AfterCleanScan)
        => SameBag(Store, op.before)

\* The pass in progress follows a narrow pass with predicate kind that
\* returned 0, and the target has not stored anything since that pass began.
AfterNarrow(kind) ==
    /\ last.pass = "narrow" /\ last.pred = kind /\ last.err = 0
    /\ ~op.mut

\* C11: narrow(unchanged) right after a completed narrow(unchanged), the
\* target not modified in between (it may have changed since the scan):
\* no step of the second pass, completed or aborted, changes the entries of
\* the list (their order aside).
C11_UnchangedIdempotent ==
    [][(pc \in NarrowPcs \cup {"n_abort"} /\ op.pred = "unchanged"
        /\ AfterNarrow("unchanged"))
            => SameBag(Store', Store)]_vars

\* The target changed after the scan, the first narrow(unchanged) dropped
\* 0x1008 and moved entries, and the second one has reached its return.
C11_Witness ==
    /\ pc = "n_out" /\ op.pred = "unchanged" /\ AfterNarrow("unchanged")
    /\ mem[4104] # V42
    /\ Len(op.before) = 4
    /\ op.before[1].addr = 8200
    /\ Len(Store) = 4

\* C12: narrow(unchanged) right after a completed narrow(changed), the
\* target not modified from the start of the first to the end of the second,
\* leaves the list empty.
C12_ChangedThenUnchangedEmpty ==
    (pc = "n_out" /\ op.pred = "unchanged" /\ AfterNarrow("changed"))
        => Store = <<>>

\* narrow(changed) kept a candidate whose snapshot differs from the target,
\* and narrow(unchanged) has removed it.
C12_Witness ==
    /\ pc = "n_out" /\ op.pred = "unchanged" /\ AfterNarrow("changed")
    /\ op.before # <<>>
    /\ Store = <<>>

C14_FailedReadDrops ==
    [][pc = "n_abort" => op.bad \notin AddrsOf(Store')]_vars

\* C15 as stated: when a read fails in a narrow pass, the other slots of the
\* chunk the pass is in have been evaluated before the pass goes to its
\* return.
C15_AbortFinishesChunk ==
    pc = "n_abort" =>
        \A i \in 1..chunk[op.entry].used :
            \/ chunk[op.entry].objects[i].addr = op.bad
            \/ Count(evals, chunk[op.entry].objects[i]) > 0

\* C16: a pass that has returned called close once if it opened
\* /proc/<pid>/mem and never otherwise; and when it failed, the caller gets
\* -1 and finds in errno what the failed call left there, whether or not
\* the close failed.
C16_HandleClosedOnce ==
    /\ last.closes = (IF last.opened THEN 1 ELSE 0)
    /\ (pc = "idle" /\ last.err # 0) => (ret = -1 /\ last.errno = "ECALL")

\* A narrow pass through /proc/<pid>/mem failed on a read and the close of
\* its handle failed too.
C16_Witness ==
    /\ pc = "idle" /\ last.pass = "narrow"
    /\ last.opened /\ last.err # 0 /\ last.closeFailed
    /\ last.closes = 1 /\ last.errno = "ECALL"

\* C17 as stated: a scan that has been called returns.
C17_ScanTerminates == (pc = "s_region") ~> (pc = "idle")

\* C18 as stated: a scan that met no reader or allocation error returns 0,
\* and a scan returns a negative value only when it met one.
C18_ScanReturnValue ==
    (pc = "idle" /\ last.pass = "scan") =>
        /\ last.err = 0 => ret = 0
        /\ ret < 0 => last.err # 0

\* Bytes of the narrowest integer or float a flag stands for
WidthOf(f) ==
    CASE f = "i8" -> 1
      [] f = "i16" -> 2
      [] f \in {"i32", "f32"} -> 4
      [] f \in {"i64", "f64"} -> 8

\* C19 as stated: a snapshot built from n bytes has no flag wider than n,
\* its bytes above n are zero, and for n = 5 its flags are exactly i8, i16,
\* i32 and f32.
C19_FiveBytesExactFlags ==
    seen.path # "none" =>
        /\ \A f \in seen.obj.flags : WidthOf(f) <= seen.n
        /\ \A i \in (seen.n + 1)..8 : seen.obj.v[i] = 0
        /\ seen.n = 5 => seen.obj.flags = {"i8", "i16", "i32", "f32"}

\* C19: a snapshot built from n bytes has no flag wider than n and its bytes
\* above n are zero; for n = 5 it carries f32 and none of i64, f64: on the
\* scan path its flags are exactly i8, i16, i32 and f32, on the narrow path
\* each of i8, i16, i32 is set exactly when the value read is at most the
\* unsigned maximum of that width.
C19_FlagsWithinBytes ==
    seen.path # "none" =>
        /\ \A f \in seen.obj.flags : WidthOf(f) <= seen.n
        /\ \A i \in (seen.n + 1)..8 : seen.obj.v[i] = 0
        /\ seen.n = 5 =>
              /\ "f32" \in seen.obj.flags
              /\ seen.obj.flags \subseteq {"i8", "i16", "i32", "f32"}
              /\ seen.path = "scan" =>
                    seen.obj.flags = {"i8", "i16", "i32", "f32"}
              /\ seen.path = "narrow" =>
                    \A f \in {"i8", "i16", "i32"} :
                        f \in seen.obj.flags <=> FitsU(seen.obj.v, WidthOf(f))

\* The narrow path read the five bytes 2A 01 00 00 00 (298).
C19_Witness ==
    /\ seen.path = "narrow" /\ seen.n = 5
    /\ seen.obj.v = <<42, 1, 0, 0, 0, 0, 0, 0>>
    /\ seen.obj.flags = {"i16", "i32", "f32"}

\* The payload read as a 64-bit signed integer lies in the signed range of
\* w bytes or, being non-negative, is at most the unsigned maximum of w bytes
InRange(v, w) ==
    IF v[8] >= 128 THEN v[w] >= 128 /\ \A i \in (w + 1)..8 : v[i] = 255
    ELSE FitsU(v, w)

\* C20 as stated: on either path each of i8, i16, i32 is set exactly when
\* the window holds that many bytes and its value is in the range of the
\* width.
C20_FlagsFollowValue ==
    seen.path # "none" =>
        \A f \in {"i8", "i16", "i32"} :
            f \in seen.obj.flags
                <=> (seen.n >= WidthOf(f) /\ InRange(seen.obj.v, WidthOf(f)))


\* C21 as stated: a scan(eq) accepts a window only when it equals the needle
\* at the largest width the needle advertises; with the needle 42 flagged
\* i8, i16, i32 and i64 no window whose u64 is 298 is added.
C21_ScanComparesWidestOnly ==
    pc = "s_out" =>
        /\ \A i \in 1..Len(Added) : SearchEqBug(Added[i], op.n1)
        /\ op.n1 = Needle42 => \A i \in 1..Len(Added) : Added[i].v # V298

\* The width a relational predicate compares an integer needle at
NeedleWidth(n) ==
    IF "i64" \in n.flags THEN 8
    ELSE IF "i32" \in n.flags THEN 4
    ELSE IF "i16" \in n.flags THEN 2
    ELSE 1

\* The value and the needle are non-negative at the needle's width
NonNegAt(v, n) == v[NeedleWidth(n)] < 128 /\ n.v[NeedleWidth(n)] < 128

\* value < needle and value <= needle at the needle's width, both
\* non-negative
Below(v, n) == LtU(v, n.v, NeedleWidth(n))
NotAbove(v, n) == ~LtU(n.v, v, NeedleWidth(n))

\* What the documentation of the relational narrows says they keep
Documented(kind, v, n1, n2) ==
    CASE kind = "lt" -> Below(v, n1)
      [] kind = "le" -> NotAbove(v, n1)
      [] kind = "gt" -> ~NotAbove(v, n1)
      [] kind = "ge" -> ~Below(v, n1)
      [] kind = "gt_lt" -> ~NotAbove(v, n1) /\ Below(v, n2)
      [] kind = "ge_lt" -> ~Below(v, n1) /\ Below(v, n2)
      [] kind = "gt_le" -> ~NotAbove(v, n1) /\ NotAbove(v, n2)
      [] kind = "ge_le" -> ~Below(v, n1) /\ NotAbove(v, n2)

\* C22 as stated: called with integer needles on a value of the needles'
\* sign, match_lt keeps the value exactly when it is less than the needle,
\* match_le, match_gt, match_ge likewise, and the four forms of match_range
\* keep it exactly when it lies between the bounds with the ends open or
\* closed as the form says.
C22_RelationalDirection ==
    (/\ verdict.kind \in {"lt", "le", "gt", "ge"} \cup TwoNeedles
     /\ NonNegAt(verdict.new.v, verdict.n1)
     /\ verdict.kind \in TwoNeedles => NonNegAt(verdict.new.v, verdict.n2))
        => (verdict.keep
              <=> Documented(verdict.kind, verdict.new.v, verdict.n1, verdict.n2))

\* C23 as stated: match_range with MRBF_GT_LT and the lower bound equal to
\* the upper bound keeps no candidate, whatever value is read.
C23_OpenPointRangeIsEmpty ==
    (verdict.kind = "gt_lt" /\ verdict.n1 = verdict.n2) => ~verdict.keep

\* C24 as stated: match_range with MRBF_GE_LE and the lower bound equal to
\* the upper bound keeps a candidate exactly when match_eq with that needle
\* keeps it.
C24_ClosedPointRangeIsEq ==
    (verdict.kind = "ge_le" /\ verdict.n1 = verdict.n2)
        => (verdict.keep
              <=> match_eq(verdict.orig, verdict.new, verdict.n1, verdict.n1))

\* new < old in the reading of flag f: the unsigned or the signed integer of
\* its width, the IEEE value for a floating point flag
SmallerAt(new, old, f) ==
    IF f \in {"f32", "f64"} THEN FLt(new, old, WidthOf(f))
    ELSE LtU(new, old, WidthOf(f)) \/ LtS(new, old, WidthOf(f))

\* C25: decreased keeps a candidate exactly when the value read is smaller
\* than the stored value in the reading of at least one flag set on the
\* stored entry, increased exactly when it is greater in one of them, and
\* both drop a candidate whose bytes are the stored bytes.
C25_DecreasedIncreased ==
    /\ verdict.kind = "decreased" =>
          (verdict.keep <=> \E f \in verdict.orig.flags :
                                SmallerAt(verdict.new.v, verdict.orig.v, f))
    /\ verdict.kind = "increased" =>
          (verdict.keep <=> \E f \in verdict.orig.flags :
                                SmallerAt(verdict.orig.v, verdict.new.v, f))
    /\ (verdict.kind \in {"decreased", "increased"}
        /\ verdict.new.v = verdict.orig.v) => ~verdict.keep

\* decreased drops an entry flagged i8 alone that went from 298 to 42: the
\* low byte did not change and the wider widths are not flagged.
C25_Witness ==
    /\ verdict.kind = "decreased"
    /\ verdict.orig.flags = {"i8"}
    /\ verdict.orig.v = V298
    /\ verdict.new.v = V42
    /\ ~verdict.keep

\* The flags a call of match_flags_set_integer on the text t must not leave
\* other than fs
FlagsOf(t, fs) == (parsed.text = t) => (parsed.flags = fs)

\* C26 as stated: match_flags_set_integer on an integer literal sets i64, no
\* floating point flag, and the narrower flags by the signed range of the
\* value: i8, i16, i32, i64 for "-1", i16, i32, i64 for "-129" and for "256".
C26_IntegerFlagsBySignedRange ==
    (parsed.call = "flags" /\ parsed.ret = 1) =>
        /\ "i64" \in parsed.flags
        /\ parsed.flags \cap {"f32", "f64"} = {}
        /\ FlagsOf(<<"-", "1">>, {"i8", "i16", "i32", "i64"})
        /\ FlagsOf(<<"-", "1", "2", "9">>, {"i16", "i32", "i64"})
        /\ FlagsOf(<<"2", "5", "6">>, {"i16", "i32", "i64"})

\* The text is a numeric literal of base 10, 16 or 8 that fits in 64 bits:
\* strtoull reads all of it and does not raise ERANGE
ValidLiteral(t) ==
    /\ ~strtoull(t).erange
    /\ strtoull(t).endptr = Len(t) + 1

\* C27 as stated: match_needle_init returns 0 on every valid numeric literal,
\* with the parsed value in v.u64 and integer flags, and fails only on a
\* text that is out of range or not numeric.
C27_NeedleInitTotal ==
    parsed.call = "init" =>
        /\ ValidLiteral(parsed.text) =>
              /\ parsed.ret = 0
              /\ parsed.v = strtoull(parsed.text).val
              /\ "i64" \in parsed.flags
              /\ parsed.flags \subseteq {"i8", "i16", "i32", "i64"}
        /\ parsed.ret # 0 => ~ValidLiteral(parsed.text)

\* The lines of the model that are complete map lines, those of them whose
\* permissions have both r and w, and the start addresses these lines give
CompleteLines == {LineHeap, LineText, LineShared}
ReadWriteLines == {LineHeap, LineShared}
StartOf(line) == IF line = LineHeap THEN 16 ELSE 80

\* The regions of the caller's list
Regions == rlist.regions

ShortLines == {LineNoPerms, LineNoOffset, LineJunk}

\* C29 as stated: when the maps file holds a line that is not empty and has
\* fewer than ten fields, process_pid_maps returns an error and leaves the
\* list empty.
C29_ShortLineFails ==
    (/\ maps.calls = 1 /\ maps.opened
     /\ \E k \in 1..Len(maps.file) : maps.file[k] \in ShortLines)
        => (maps.ret # 0 /\ Regions = <<>>)

\* The region at position i of the caller's list satisfies the filter asked
\* for: its pathname is the argument, its basename is the argument, or the
\* pattern occurs in its pathname
Satisfies(i) ==
    CASE view.kind = "pathname" -> Regions[i].pathname = view.arg
      [] view.kind = "basename" -> Basename(Regions[i].pathname) = view.arg
      [] view.kind = "regex" -> Contains(Regions[i].pathname, view.arg)

\* The positions the filter asked for has to yield, and the result of the
\* opposite filter on the same list
Wanted == {i \in 1..Len(Regions) : Satisfies(i) # view.invert}
Opposite ==
    region_list_filter(rlist, view.kind, view.arg, ~view.invert, 0, view.ub)

\* C30 as stated: a filter call in which no allocation fails returns the
\* regions of the list that satisfy the predicate (that do not, for the
\* inverse filter), in list order and by reference, NULL when there is
\* none; the filter and its inverse share no region, cover the list
\* together and their sizes add up to its size; on the list libc.so.6,
\* libfoo.so, [heap] the basename libc.so.6 selects one region and its
\* inverse two.
C30_FilterPartitions ==
    (view.kind # "none" /\ view.failAt = 0) =>
        /\ view.out.status = "returned"
        /\ Range(view.out.filters) = Wanted
        /\ \A j \in 1..(Len(view.out.filters) - 1) :
              view.out.filters[j] < view.out.filters[j + 1]
        /\ view.out.size = Cardinality(Wanted)
        /\ view.out.null <=> Wanted = {}
        /\ Range(view.out.filters) \cap Range(Opposite.filters) = {}
        /\ Range(view.out.filters) \cup Range(Opposite.filters) = 1..Len(Regions)
        /\ view.out.size + Opposite.size = rlist.size
        /\ (/\ view.kind = "basename" /\ view.arg = BaseLibc
            /\ [i \in 1..Len(Regions) |-> Regions[i].pathname]
                 = <<PathLibc, PathLibfoo, PathHeap>>)
              => view.out.size = IF view.invert THEN 2 ELSE 1
\* The windows the scan in progress gathered in its k-th region
WindowsOf(k) == SelectSeq(windows, LAMBDA w : w.ri = k)

\* C32 as stated: when an aligned scan through the word-peek reader has
\* gone through its regions, the windows of each region are one per word
\* address start, start + W, ..., end - W, in that order, each holding the
\* word of the target at its address.
C32_AlignedWindows ==
    (pc = "s_out" /\ op.reader = "ptrace" /\ op.aligned) =>
        \A k \in 1..Len(op.regions) :
            LET r == op.regions[k]
                ws == WindowsOf(k)
            IN  /\ Len(ws) = (r.end - r.start) \div WORD
                /\ \A i \in 1..Len(ws) :
                      /\ ws[i].obj.addr = r.start + WORD * (i - 1)
                      /\ ws[i].obj.v = mem[r.start + WORD * (i - 1)]

\* C33 as stated: when an unaligned scan through the word-peek reader has
\* gone through its regions, the windows of each region are one per byte
\* address start, ..., end - 1, in that order, each holding the bytes of
\* the region from its address on (at most 8) with the flags of that many
\* bytes; a region of 8 bytes gives 8 windows.
C33_UnalignedWindows ==
    (pc = "s_out" /\ op.reader = "ptrace" /\ ~op.aligned) =>
        \A k \in 1..Len(op.regions) :
            LET r == op.regions[k]
                ws == WindowsOf(k)
            IN  /\ Len(ws) = r.end - r.start
                /\ \A i \in 1..Len(ws) :
                      ws[i].obj = window_object(mem, r.start + i - 1,
                                      IF r.end - (r.start + i - 1) < 8
                                      THEN r.end - (r.start + i - 1) ELSE 8)

\* C34 as stated: when a narrow pass reaches its return without a read
\* error, no chunk linked in the list has used = 0.
C34_NoEmptyChunkAfterNarrow ==
    pc = "n_out" => \A i \in 1..Len(order) : chunk[order[i]].used # 0

\* The turn of the consolidation loop that is about to run takes the
\* partial-move branch: the chunk at hand is not full, there is a current
\* chunk, and the chunk at hand does not fit into the room left in it.
PartialMove ==
    /\ pc = "n_compact" /\ op.entry # 0 /\ op.cur # 0
    /\ chunk[op.entry].used # chunk[op.entry].count
    /\ ~FitsEntirely(chunk[op.entry], chunk[op.cur])

\* The step moved the last n = count - used objects of src behind the used
\* objects of dst, and nothing else changed in the two chunks.
MovedTail(src, dst) ==
    LET n == chunk[dst].count - chunk[dst].used
    IN  /\ chunk'[dst].used = chunk[dst].count
        /\ chunk'[src].used = chunk[src].used - n
        /\ Used(chunk'[dst]) =
              Used(chunk[dst]) \o SubSeq(Used(chunk[src]), chunk[src].used - n + 1,
                                         chunk[src].used)
        /\ Used(chunk'[src]) = SubSeq(Used(chunk[src]), 1, chunk[src].used - n)

\* C35: a turn of the consolidation loop leaves the multiset of entries of
\* the list as it was and does not add a chunk; a turn that takes the
\* partial-move branch moves exactly (capacity - used) entries of the
\* destination from the tail of the source, which leaves the destination
\* full.
C35_CompactionKeepsCandidates ==
    [][pc = "n_compact" =>
          /\ SameBag(Store', Store)
          /\ Len(order') <= Len(order)
          /\ PartialMove =>
                \/ MovedTail(op.entry, op.cur)
                \/ MovedTail(op.cur, op.entry)]_vars

\* A pass that dropped nothing has been through a partial move: the list
\* holds the entries it began with, in another order, in two chunks or
\* more.
C35_Witness ==
    /\ pc = "n_out"
    /\ SameBag(Store, op.before)
    /\ Store # op.before
    /\ Len(order) >= 2

\* C36 as stated: a first scan in which no window matched has linked no
\* chunk; after a scan that follows a scan, every chunk but the last is
\* full (a chunk is only added when the last one is full); every chunk has
\* the one capacity.
C36_ChunkOnlyWhenNeeded ==
    /\ \A i \in 1..Len(order) : chunk[order[i]].count = ChunkCap
    /\ (pc = "s_out" /\ passes = 1 /\ Matched = <<>>) => order = <<>>
    /\ (pc = "s_out" /\ passes = 2 /\ last.pass = "scan") =>
            \A i \in 1..(Len(order) - 1) :
                chunk[order[i]].used = chunk[order[i]].count

\* The chunks linked in the list that are not full
NotFull == {i \in 1..Len(order) : chunk[order[i]].used # chunk[order[i]].count}

\* C38: when a narrow pass reaches its return through the consolidation, at
\* most one chunk linked in the list is not full.
C38_OneChunkNotFull == pc = "n_out" => Cardinality(NotFull) <= 1

\* A pass dropped entries from a list of two chunks or more and left a full
\* chunk in front of one that is neither full nor empty.
C38_Witness ==
    /\ pc = "n_out"
    /\ Len(op.before) > Len(Store)
    /\ Len(order) = 2
    /\ chunk[order[1]].used = chunk[order[1]].count
    /\ chunk[order[2]].used \in 1..(ChunkCap - 1)

\* "Always fill a map": the chunks are swapped when the chunk at hand has
\* less room than the current chunk
SwapsChunks ==
    chunk[op.entry].count - chunk[op.entry].used
        < chunk[op.cur].count - chunk[op.cur].used

\* C39: whenever the consolidation loop is about to take the partial-move
\* branch, the source (after the swap, if there is one) holds at least as
\* many entries as the destination has room for, so the tail index
\* source.used - current_delta is not below zero and the destination is
\* filled exactly; and all chunks linked in the list have the same capacity.
C39_PartialMoveWithinBounds ==
    /\ \A i, j \in 1..Len(order) : chunk[order[i]].count = chunk[order[j]].count
    /\ PartialMove =>
          LET src == IF SwapsChunks THEN op.cur ELSE op.entry
              dst == IF SwapsChunks THEN op.entry ELSE op.cur
              delta == chunk[dst].count - chunk[dst].used
          IN  /\ chunk[src].used >= delta
              /\ delta >= 0
              /\ chunk[dst].used + delta = chunk[dst].count

\* The partial move is about to run with the two chunks swapped.
C39_Witness == PartialMove /\ SwapsChunks

\* C37: delete_chunk_object(chunk, slot) with slot < used takes used down by
\* one and puts the former last entry into the slot, copying nothing when the
\* slot was the last one, and leaves every other slot as it was; with
\* slot >= used the chunk is unchanged.
C37_DeleteSwapsLastIn ==
    cut.calls > 0 =>
        LET b == cut.before
            a == cut.c
            s == cut.slot + 1
        IN  IF cut.slot >= b.used THEN a = b
            ELSE /\ a.used = b.used - 1
                 /\ a.count = b.count
                 /\ a.objects[s] = b.objects[b.used]
                 /\ \A i \in 1..b.count : i # s => a.objects[i] = b.objects[i]

C37_Witness ==
    /\ cut.calls > 0
    /\ cut.slot + 1 < cut.before.used
    /\ cut.before.objects[cut.slot + 1] # cut.before.objects[cut.before.used]
    /\ cut.c.objects[cut.slot + 1] = cut.before.objects[cut.before.used]

\* C31: ptracer_cont resumes the tracee with SIGCONT when current_state is
\* SIG_STOPPED and with a PTRACE_CONT request otherwise, sets
\* expected_next_state to PTRACER_PROC_STATE_RUNNING, and after a successful
\* call current_state is RUNNING.
C31_ContRecordsRunning ==
    (tracer.pc = "ctx" /\ tracer.last = "ptracer_cont") =>
        /\ tracer.request =
              IF tracer.prev = PTRACER_PROC_STATE_SIG_STOPPED THEN "SIGCONT" ELSE "PTRACE_CONT"
        /\ tracer.ctx.expected_next_state = PTRACER_PROC_STATE_RUNNING
        /\ tracer.ret = 0 => tracer.ctx.current_state = PTRACER_PROC_STATE_RUNNING

\* C40: once the run has started, every registered breakpoint's orig_data is
\* the tracee's original word at its addr, without the trap byte, so the word
\* written back before the single step is the original instruction, and every
\* breakpoint is armed when the tracee is found stopped; two breakpoints at
\* one address and breakpoints added after the start included.
C40_OrigDataIsOriginal ==
    (tracer.pc \in {"run_callback", "stopped", "callback", "done"}) =>
        /\ \A i \in 1..Len(tracer.breakpoints) :
              tracer.breakpoints[i].orig_data = TextInit[tracer.breakpoints[i].addr]
        /\ tracer.restored # <<>> => tracer.restored[2] = TextInit[tracer.restored[1]]
        /\ tracer.pc = "stopped" =>
              \A i \in 1..Len(tracer.breakpoints) :
                  tracer.text[tracer.breakpoints[i].addr][1] = TRAP

====
